---- MODULE Spec2Model ----
(***************************************************************************)
(* A model of the validation engine of rockcookies/go-validation:          *)
(* the value dispatch engine (ValidateWithContext, validateMap,            *)
(* validateSlice, the Skip rule, the When/Else rule) and the record field  *)
(* engine (ValidateStructWithContext).                                     *)
(*                                                                         *)
(* The engine is a synchronous library: one call runs to completion.  A    *)
(* behaviour of the model is one call: Init draws the call's inputs, the   *)
(* action of the called function computes its returned error and the       *)
(* sequence of user code it invoked (rules, Validate methods) on the way.  *)
(* Rules and Validate methods are user code; each is modelled by the error *)
(* it returns for the value of the call (they return, they do not panic).  *)
(***************************************************************************)
EXTENDS Integers, Sequences, FiniteSets, TLC

VARIABLES
    pc,     \* "ready": the call has not run; "done": it has returned
    call,   \* the inputs of the call
    err,    \* the error the call returned (Nil before it ran)
    log,    \* the steps the call took, in order (see Ev)
    ret,    \* what a call that returns no error returned, and its receiver
            \* as the call left it (NoRet for the validation calls)
    heap,   \* the options values allocated so far, by address
    ctxs,   \* the contexts made so far
    pending, \* the calls of WithOptions that have not returned yet
    mem,    \* the variables a value handed to ValidateWithContext can point to
    stack   \* the values of the activations of ValidateWithContext that have
            \* not returned, the outermost first

vars == <<pc, call, err, log, ret, heap, ctxs, pending, mem, stack>>

\* ------------------------------------------------------------------ bounds

MaxRules == 2       \* longest rule list of a call
MaxElems == 2       \* most elements of a slice, array or map
MaxPtrDepth == 2    \* longest pointer chain in front of a value
MaxFields == 2      \* most locators of a record validation
MaxCtxs == 2        \* most contexts derived from context.Background()
MaxCells == 2       \* most variables a value can point to

\* ------------------------------------------------------------- error model

\* error(nil)
Nil == [t |-> "nil"]

\* a single validation failure (errors.New / NewError)
Leaf(code) == [t |-> "leaf", code |-> code]

\* NewInternalError(cause)
NewInternalError(cause) == [t |-> "internal", cause |-> cause]

\* the causes of internal errors; i is the number of the locator, from 0
ErrStructPointer == [e |-> "ErrStructPointer", i |-> 0]
ErrFieldPointer(i) == [e |-> "ErrFieldPointer", i |-> i]
ErrFieldNotFound(i) == [e |-> "ErrFieldNotFound", i |-> i]

\* a cause made by user code (errors.New("error internal"))
UserCause == [e |-> "user", i |-> 0]

\* a run-time panic of the reflect package, which ends the call
Panic == [t |-> "panic"]

\* Errors: a map from error key to error; m is a function on a set of strings
Errors(m) == [t |-> "errors", m |-> m]

\* Errors{}
NoEntries == [k \in {} |-> Nil]

\* errs[key] = e
Put(m, key, e) == [k \in (DOMAIN m) \cup {key} |-> IF k = key THEN e ELSE m[k]]

\* --------------------------------------------------------------- text forms

Digits == <<"0", "1", "2", "3", "4", "5", "6", "7", "8", "9">>

\* strconv.Itoa for i >= 0
RECURSIVE Itoa(_)
Itoa(i) == IF i < 10 THEN Digits[i + 1] ELSE Itoa(i \div 10) \o Digits[(i % 10) + 1]

\* map keys: a string key or an int key (a map keyed by interface{} can hold both)
StrKey(s) == [t |-> "string", s |-> s, i |-> 0]
IntKey(i) == [t |-> "int", s |-> "", i |-> i]

\* fmt.Sprintf("%v", key.Interface())
Sprint(key) == IF key.t = "string" THEN key.s ELSE Itoa(key.i)

\* ------------------------------------------------------------------- values
\* A Go value as reflection sees it:
\*   kind     reflect.Kind of the value ("invalid" for the nil interface)
\*   impl     whether its dynamic type implements Validatable
\*   verdict  what its Validate(ctx) returns when invoked
\* and for pointers isNil and elem (the result of rv.Elem().Interface()), for
\* collections elemImpl (rv.Type().Elem().Implements(validatableType)),
\* elemKind (the kind of the element type: "value", "ptr" or "interface") and
\* the elements (elems, a sequence; m, a function on the map's keys).

NilInterface == [kind |-> "invalid", impl |-> FALSE, verdict |-> Nil]

\* a string, an int, a struct without Validate
Plain == [kind |-> "basic", impl |-> FALSE, verdict |-> Nil]

\* a value whose type has a value-receiver Validate (String123)
Self(e) == [kind |-> "basic", impl |-> TRUE, verdict |-> e]

\* a nil *T; impl when *T implements Validatable, verdict what Validate returns
\* on the nil receiver
NilPtr(impl, e) == [kind |-> "ptr", impl |-> impl, verdict |-> e, isNil |-> TRUE]

\* &v: the method set of *T includes the value-receiver methods of T, so &v
\* implements Validatable when v's type does and is no pointer itself
PtrTo(v) ==
    [kind |-> "ptr", isNil |-> FALSE, elem |-> v,
     impl |-> (v.kind \notin {"ptr", "invalid"} /\ v.impl),
     verdict |-> IF v.kind \notin {"ptr", "invalid"} /\ v.impl THEN v.verdict ELSE Nil]

\* a pointer to an interface variable holding v (*interface{}, *Validatable):
\* the pointer type has no methods
PtrToInterface(v) ==
    [kind |-> "ptr", isNil |-> FALSE, elem |-> v, impl |-> FALSE, verdict |-> Nil]

\* a non-nil *T whose Validate has a pointer receiver (ValidatableItemPtr)
PtrSelf(e) == [kind |-> "ptr", isNil |-> FALSE, elem |-> Plain, impl |-> TRUE, verdict |-> e]

Slice(kind, impl, e, elemImpl, elemKind, elems) ==
    [kind |-> kind, impl |-> impl, verdict |-> e,
     elemImpl |-> elemImpl, elemKind |-> elemKind, elems |-> elems]

Map(impl, e, elemImpl, elemKind, m) ==
    [kind |-> "map", impl |-> impl, verdict |-> e,
     elemImpl |-> elemImpl, elemKind |-> elemKind, m |-> m]

\* ------------------------------------------------------------------- rules

\* a user rule (validateAbc, By(f), Required...): err is what its Validate
\* returns for the value of the call
UserRule(name, e) == [t |-> "rule", name |-> name, err |-> e]

\* Skip = skipRule{skip: true}
Skip == [t |-> "skip", name |-> "Skip", skip |-> TRUE]

\* func (r skipRule) When(condition bool) skipRule
SkipWhen(r, condition) == [r EXCEPT !.skip = condition]

\* When(condition, rules...)
When(condition, rules) ==
    [t |-> "when", name |-> "When", condition |-> condition,
     rules |-> rules, elseRules |-> <<>>]

\* func (r WhenRule) Else(rules ...Rule) WhenRule
Else(r, rules) == [r EXCEPT !.elseRules = rules]

\* mutant: Else has a pointer receiver and sets elseRules of the rule itself
ElseMethod_PointerReceiver(r, rules) == [receiver |-> Else(r, rules), result |-> Else(r, rules)]

\* the method call r.Else(rules...): WhenRule is the receiver by value, so the
\* assignment to r.elseRules changes the method's copy; receiver is the
\* caller's rule after the call
ElseMethod(r, rules) == [receiver |-> r, result |-> Else(r, rules)]

\* ------------------------------------------------------ the invocation log
\* One entry per call into user code and per recursion the engine enters.  wd
\* counts the When rules the step is nested in, pd the pointers
\* ValidateWithContext has dereferenced on the way, sd the record validations
\* (ValidateStructWithContext) the step is nested in.
\*   op = "rule":  rule number idx of the activation's rule list was invoked
\*   op = "self":  the Validate method of the activation's value was invoked
\*   op = "map", "slice": validateMap / validateSlice was entered
\*   op = "elem":  the Validate method of the element at idx / key was invoked
\*   op = "deref": the pointer was dereferenced and ValidateWithContext re-entered
\*   op = "field": locator number idx (from 0) resolved to the field named key

NoRule == [t |-> "none"]

Ev(op, env, idx, key, rule) ==
    [op |-> op, wd |-> env.wd, pd |-> env.pd, sd |-> env.sd,
     idx |-> idx, key |-> key, rule |-> rule]

\* what a function returns: its error and the log of what it invoked
Ret(e, l) == [err |-> e, log |-> l]

\* ------------------------------------------------- the value dispatch engine

RECURSIVE ValidateWithContext(_, _, _)
RECURSIVE RuleValidate(_, _, _)
RECURSIVE RunRules(_, _, _, _)
RECURSIVE MapLoop(_, _, _, _, _)
RECURSIVE SliceLoop(_, _, _, _, _)
RECURSIVE ValidateStructWithContext(_, _, _)
RECURSIVE FieldsLoop(_, _, _, _, _)

\* mutant: the Skip marker is not recognised, the rule runs like any other
IsSkipping_Never(rule) == FALSE

\* mutant: any skipRule skips, whatever its flag
IsSkipping_IgnoresFlag(rule) == rule.t = "skip"

\* s, ok := rule.(skipRule); ok && s.skip
IsSkipping(rule) == rule.t = "skip" /\ rule.skip

\* mutant: a nil pointer of a Validatable type is not treated as nil
IsNilReference_UnlessValidatable(rv) ==
    rv.kind \in {"ptr", "interface"} /\ rv.isNil /\ ~rv.impl

\* (rv.Kind() == reflect.Ptr || rv.Kind() == reflect.Interface) && rv.IsNil()
IsNilReference(rv) == rv.kind \in {"ptr", "interface"} /\ rv.isNil

\* mutant: collections are recursed into before their own Validate is looked for
IsValidatable_NotCollections(value) ==
    value.impl /\ value.kind \notin {"map", "slice", "array"}

\* v, ok := value.(Validatable)
IsValidatable(value) == value.impl

\* mutant: a false condition validates nothing
WhenValidate_NoElse(r, value, env) ==
    IF r.condition
    THEN ValidateWithContext(value, r.rules, [env EXCEPT !.wd = @ + 1])
    ELSE Ret(Nil, <<>>)

\* func (r WhenRule) Validate(ctx, value)
WhenValidate(r, value, env) ==
    IF r.condition
    THEN ValidateWithContext(value, r.rules, [env EXCEPT !.wd = @ + 1])
    ELSE ValidateWithContext(value, r.elseRules, [env EXCEPT !.wd = @ + 1])

\* rule.Validate(ctx, value): the method of the rule's dynamic type
RuleValidate(rule, value, env) ==
    CASE rule.t = "skip" -> Ret(Nil, <<>>)
      [] rule.t = "rule" -> Ret(rule.err, <<>>)
      [] rule.t = "when" -> WhenValidate(rule, value, env)
      [] rule.t = "struct" -> ValidateStructWithContext(value, rule.fields, env)

\* mutant: the loop runs every rule and returns the first error at the end
RECURSIVE RunRules_KeepsGoing(_, _, _, _)
RunRules_KeepsGoing(value, rules, i, env) ==
    IF i > Len(rules)
    THEN [returned |-> FALSE, err |-> Nil, log |-> <<>>]
    ELSE IF IsSkipping(rules[i])
    THEN [returned |-> TRUE, err |-> Nil, log |-> <<>>]
    ELSE LET r == RuleValidate(rules[i], value, env)
             l == <<Ev("rule", env, i, "", rules[i])>> \o r.log
             rest == RunRules_KeepsGoing(value, rules, i + 1, env)
         IN  IF r.err # Nil
             THEN [returned |-> TRUE, err |-> r.err, log |-> l \o rest.log]
             ELSE [rest EXCEPT !.log = l \o @]

\* for _, rule := range rules { ... }: from rule number i on.  returned tells
\* whether the loop left ValidateWithContext (by Skip or by an error).
RunRules(value, rules, i, env) ==
    IF i > Len(rules)
    THEN [returned |-> FALSE, err |-> Nil, log |-> <<>>]
    ELSE IF IsSkipping(rules[i])
    THEN [returned |-> TRUE, err |-> Nil, log |-> <<>>]
    ELSE LET r == RuleValidate(rules[i], value, env)
             l == <<Ev("rule", env, i, "", rules[i])>> \o r.log
         IN  IF r.err # Nil
             THEN [returned |-> TRUE, err |-> r.err, log |-> l]
             ELSE LET rest == RunRules(value, rules, i + 1, env)
                  IN  [rest EXCEPT !.log = l \o @]

\* validateMap's loop over rv.MapKeys(), keys being the order MapKeys returned
MapLoop(rv, keys, i, errs, env) ==
    IF i > Len(keys)
    THEN Ret(IF Cardinality(DOMAIN errs) > 0 THEN Errors(errs) ELSE Nil, <<>>)
    ELSE LET key == keys[i]
             mv == rv.m[key]
         IN  IF mv.kind # "invalid"
             THEN LET rest == MapLoop(rv, keys, i + 1,
                                      IF mv.verdict # Nil
                                      THEN Put(errs, Sprint(key), mv.verdict)
                                      ELSE errs, env)
                  IN  [rest EXCEPT !.log = <<Ev("elem", env, 0, Sprint(key), NoRule)>> \o @]
             ELSE MapLoop(rv, keys, i + 1, errs, env)

\* func validateMap(ctx, rv): env.order is the order rv.MapKeys() returns
validateMap(rv, env) == MapLoop(rv, env.order, 1, NoEntries, env)

\* validateSlice's loop, from index i on
SliceLoop(rv, i, errs, l, env) ==
    IF ~(i < l)
    THEN Ret(IF Cardinality(DOMAIN errs) > 0 THEN Errors(errs) ELSE Nil, <<>>)
    ELSE LET v == rv.elems[i + 1]
         IN  IF rv.elemKind = "ptr" /\ v.isNil
             THEN SliceLoop(rv, i + 1, errs, l, env)
             ELSE IF v.kind # "invalid"
             THEN LET rest == SliceLoop(rv, i + 1,
                                        IF v.verdict # Nil
                                        THEN Put(errs, Itoa(i), v.verdict)
                                        ELSE errs, l, env)
                  IN  [rest EXCEPT !.log = <<Ev("elem", env, i, Itoa(i), NoRule)>> \o @]
             ELSE SliceLoop(rv, i + 1, errs, l, env)

\* mutant: the loop starts at index 1
validateSlice_FromOne(rv, env) == SliceLoop(rv, 1, NoEntries, Len(rv.elems), env)

\* func validateSlice(ctx, rv)
validateSlice(rv, env) == SliceLoop(rv, 0, NoEntries, Len(rv.elems), env)

\* mutant: the recursion through a pointer passes the rules on
Recurse_PassesRules(rv, rules, env) ==
    CASE rv.kind = "map" ->
           IF rv.elemImpl
           THEN LET d == validateMap(rv, env)
                IN  Ret(d.err, <<Ev("map", env, 0, "", NoRule)>> \o d.log)
           ELSE Ret(Nil, <<>>)
      [] rv.kind \in {"slice", "array"} ->
           IF rv.elemImpl
           THEN LET d == validateSlice(rv, env)
                IN  Ret(d.err, <<Ev("slice", env, 0, "", NoRule)>> \o d.log)
           ELSE Ret(Nil, <<>>)
      [] rv.kind \in {"ptr", "interface"} ->
           LET d == ValidateWithContext(rv.elem, rules, [env EXCEPT !.pd = @ + 1])
           IN  Ret(d.err, <<Ev("deref", env, 0, "", NoRule)>> \o d.log)
      [] OTHER -> Ret(Nil, <<>>)

\* mutant: collections are recursed into whatever their element type
Recurse_IgnoresElemType(rv, rules, env) ==
    CASE rv.kind = "map" ->
           LET d == validateMap(rv, env)
           IN  Ret(d.err, <<Ev("map", env, 0, "", NoRule)>> \o d.log)
      [] rv.kind \in {"slice", "array"} ->
           LET d == validateSlice(rv, env)
           IN  Ret(d.err, <<Ev("slice", env, 0, "", NoRule)>> \o d.log)
      [] rv.kind \in {"ptr", "interface"} ->
           LET d == ValidateWithContext(rv.elem, <<>>, [env EXCEPT !.pd = @ + 1])
           IN  Ret(d.err, <<Ev("deref", env, 0, "", NoRule)>> \o d.log)
      [] OTHER -> Ret(Nil, <<>>)

\* switch rv.Kind() { ... }; return nil      (rules is in scope there; the
\* recursion through a pointer passes no rules)
Recurse(rv, rules, env) ==
    CASE rv.kind = "map" ->
           IF rv.elemImpl
           THEN LET d == validateMap(rv, env)
                IN  Ret(d.err, <<Ev("map", env, 0, "", NoRule)>> \o d.log)
           ELSE Ret(Nil, <<>>)
      [] rv.kind \in {"slice", "array"} ->
           IF rv.elemImpl
           THEN LET d == validateSlice(rv, env)
                IN  Ret(d.err, <<Ev("slice", env, 0, "", NoRule)>> \o d.log)
           ELSE Ret(Nil, <<>>)
      [] rv.kind \in {"ptr", "interface"} ->
           LET d == ValidateWithContext(rv.elem, <<>>, [env EXCEPT !.pd = @ + 1])
           IN  Ret(d.err, <<Ev("deref", env, 0, "", NoRule)>> \o d.log)
      [] OTHER -> Ret(Nil, <<>>)

\* func ValidateWithContext(ctx, value, rules...)
ValidateWithContext(value, rules, env) ==
    LET rr == RunRules(value, rules, 1, env)
    IN  IF rr.returned
        THEN Ret(rr.err, rr.log)
        ELSE IF IsNilReference(value)
        THEN Ret(Nil, rr.log)
        ELSE IF IsValidatable(value)
        THEN Ret(value.verdict, rr.log \o <<Ev("self", env, 0, "", NoRule)>>)
        ELSE LET d == Recurse(value, rules, env)
             IN  Ret(d.err, rr.log \o d.log)

\* --------------------------------------------------------- records (structs)
\* Strings the code takes apart (field names, tags) are sequences of
\* one-character strings; Join turns one into the string it spells.

RECURSIVE Join(_)
Join(cs) == IF cs = <<>> THEN "" ELSE Head(cs) \o Join(Tail(cs))

Lower == <<"a", "b", "c", "d", "e", "f", "g", "h", "i", "j", "k", "l", "m",
           "n", "o", "p", "q", "r", "s", "t", "u", "v", "w", "x", "y", "z">>
Upper == <<"A", "B", "C", "D", "E", "F", "G", "H", "I", "J", "K", "L", "M",
           "N", "O", "P", "Q", "R", "S", "T", "U", "V", "W", "X", "Y", "Z">>

\* c >= 'a' && c <= 'z'
IsLower(c) == \E n \in 1..Len(Lower) : Lower[n] = c

\* strings.ToUpper of one ASCII character
ToUpper(c) == IF IsLower(c) THEN Upper[CHOOSE n \in 1..Len(Lower) : Lower[n] = c] ELSE c

\* a field of a struct value: the reflect.StructField (name, type, tag,
\* anonymous) with the field's storage address and current value; json is the
\* value of the tag's json key ("" when the tag has none)
StructField(name, type, json, anonymous, addr, value) ==
    [name |-> name, type |-> type, json |-> json, anonymous |-> anonymous,
     addr |-> addr, value |-> value]

\* a struct value; impl and verdict as for every value
Struct(type, impl, e, fields) ==
    [kind |-> "struct", impl |-> impl, verdict |-> e, type |-> type, fields |-> fields]

\* &x for an x of the given type stored at addr with the current value v
AddrOf(addr, type, v) ==
    [kind |-> "ptr", isNil |-> FALSE, elem |-> v,
     impl |-> PtrTo(v).impl, verdict |-> PtrTo(v).verdict,
     addr |-> addr, type |-> type]

\* the locators (struct.go: FieldRules)
\* func Field(fieldPtr, rules...)
Field(fieldPtr, rules) ==
    [name |-> <<>>, isNamedField |-> FALSE, fieldPtr |-> fieldPtr,
     rules |-> rules, validatePtrValue |-> FALSE]

\* func NamedField(name, rules...)
NamedField(name, rules) ==
    [name |-> name, isNamedField |-> TRUE, fieldPtr |-> NilInterface,
     rules |-> rules, validatePtrValue |-> FALSE]

\* the inlineRule FieldStruct and NamedStructField wrap the nested locators in
StructRule(fields) == [t |-> "struct", name |-> "inlineRule", fields |-> fields]

\* func FieldStruct(structPtr, fields...)
FieldStruct(structPtr, fields) ==
    [name |-> <<>>, isNamedField |-> FALSE, fieldPtr |-> structPtr,
     rules |-> <<StructRule(fields)>>, validatePtrValue |-> TRUE]

\* func NamedStructField(name, fields...)
NamedStructField(name, fields) ==
    [name |-> name, isNamedField |-> TRUE, fieldPtr |-> NilInterface,
     rules |-> <<StructRule(fields)>>, validatePtrValue |-> TRUE]

\* the index of the first "," of cs, 0 when it has none
FirstComma(cs) ==
    IF \E n \in 1..Len(cs) : cs[n] = ","
    THEN CHOOSE n \in 1..Len(cs) : cs[n] = "," /\ \A j \in 1..(n - 1) : cs[j] # ","
    ELSE 0

\* mutant: the tag is not looked at
getErrorFieldName_DeclaredName(f) == Join(f.name)

\* func getErrorFieldName(f, tagName), for tagName = "json"
getErrorFieldName(f) ==
    LET tag == f.json
        cps0 == IF FirstComma(tag) = 0 THEN tag ELSE SubSeq(tag, 1, FirstComma(tag) - 1)
    IN  IF tag # <<>> /\ tag # <<"-">> /\ cps0 # <<>> THEN Join(cps0) ELSE Join(f.name)

\* func DefaultGetErrorFieldName(f)
DefaultGetErrorFieldName(f) == getErrorFieldName(f)

\* what a field lookup returns
Found(fv, ft) == [ok |-> TRUE, fv |-> fv, ft |-> ft]
NotFound == [ok |-> FALSE]

\* the struct an embedded field holds: sf.Type.Kind() == reflect.Ptr ? fi.Elem() : fi
Embedded(f) == IF f.value.kind = "ptr" THEN (IF f.value.isNil THEN NilInterface ELSE f.value.elem) ELSE f.value

\* func findStructField(structValue, fieldValue): the loop from field i down
RECURSIVE FindFrom(_, _, _)
FindFrom(structValue, fieldValue, i) ==
    IF i < 1 THEN NotFound
    ELSE LET sf == structValue.fields[i]
         IN  IF fieldValue.addr = sf.addr /\ sf.type = fieldValue.type
             THEN Found(fieldValue, sf)
             ELSE LET inner == IF sf.anonymous /\ Embedded(sf).kind = "struct"
                               THEN FindFrom(Embedded(sf), fieldValue, Len(Embedded(sf).fields))
                               ELSE NotFound
                  IN  IF inner.ok THEN inner ELSE FindFrom(structValue, fieldValue, i - 1)

findStructField(structValue, fieldValue) ==
    FindFrom(structValue, fieldValue, Len(structValue.fields))

\* reflect's FieldByName: a field of the struct itself, else the one field of
\* that name promoted from its embedded structs
FieldByName(structValue, name) ==
    LET own == {i \in 1..Len(structValue.fields) : structValue.fields[i].name = name}
        emb == {i \in 1..Len(structValue.fields) :
                   structValue.fields[i].anonymous /\ Embedded(structValue.fields[i]).kind = "struct"}
        promoted == UNION {{<<i, j>> : j \in {j \in 1..Len(Embedded(structValue.fields[i]).fields) :
                                        Embedded(structValue.fields[i]).fields[j].name = name}} :
                           i \in emb}
    IN  IF own # {}
        THEN LET i == CHOOSE i \in own : TRUE
             IN  Found(structValue.fields[i].value, structValue.fields[i])
        ELSE IF Cardinality(promoted) = 1
        THEN LET p == CHOOSE p \in promoted : TRUE
                 f == Embedded(structValue.fields[p[1]]).fields[p[2]]
             IN  Found(f.value, f)
        ELSE NotFound

\* func DefaultFindStructFieldByName(structValue, name)
DefaultFindStructFieldByName(structValue, name) ==
    IF Len(name) = 0 THEN NotFound
    ELSE FieldByName(structValue,
                     IF IsLower(name[1]) THEN <<ToUpper(name[1])>> \o Tail(name) ELSE name)

\* the options of a context: the functions are named by their identifiers
defaultOptions ==
    [valuerFunc |-> "DefaultValuer",
     getErrorFieldNameFunc |-> "DefaultGetErrorFieldName",
     findStructFieldByNameFunc |-> "DefaultFindStructFieldByName"]

\* a context no options are attached to
NoOptions == [t |-> "none"]

\* getOpts(ctx): env.opts is what ctx.Value(optionsCtxKey) holds
getOpts(env) == IF env.opts = NoOptions THEN defaultOptions ELSE env.opts

\* a function value that is nil
NilFunc == "nil"

\* the options of the first option.go of the sources, which has no lookup of
\* fields by name
defaultOptions1 ==
    [valuerFunc |-> "DefaultValuer", getErrorFieldNameFunc |-> "DefaultGetErrorFieldName"]

\* the options of that option.go assign their function whatever it is:
\* func(o *options) { o.valuerFunc = valuerFunc }
AssignOption(opt, o) == [o EXCEPT ![opt.field] = opt.f]

\* func WithGetErrorFieldNameFunc(f) Option
WithGetErrorFieldNameFunc(f) == [field |-> "getErrorFieldNameFunc", f |-> f]

\* func WithValuerFunc(f) Option
WithValuerFunc(f) == [field |-> "valuerFunc", f |-> f]

\* func WithFindStructFieldByNameFunc(f) Option
WithFindStructFieldByNameFunc(f) == [field |-> "findStructFieldByNameFunc", f |-> f]

\* opt(o2): the option assigns its function unless it is nil
ApplyOption(opt, o) == IF opt.f # NilFunc THEN [o EXCEPT ![opt.field] = opt.f] ELSE o

\* for _, opt := range opts { opt(o2) }
RECURSIVE ApplyOptions(_, _)
ApplyOptions(opts, o) ==
    IF opts = <<>> THEN o ELSE ApplyOptions(Tail(opts), ApplyOption(Head(opts), o))

\* func WithOptions(ctx, opts...): what the returned context holds
WithOptions(ctx, opts) == ApplyOptions(opts, getOpts([opts |-> ctx]))

\* func(f *reflect.StructField) string { return "field_" + f.Name }
FieldPrefixed(f) == "field_" \o Join(f.name)

\* mutant: the options of the context are not looked at
CallGetErrorFieldNameFunc_Default(env, ft) == DefaultGetErrorFieldName(ft)

\* getOpts(ctx).getErrorFieldNameFunc(ft)
CallGetErrorFieldNameFunc(env, ft) ==
    CASE getOpts(env).getErrorFieldNameFunc = "DefaultGetErrorFieldName" ->
           DefaultGetErrorFieldName(ft)
      [] getOpts(env).getErrorFieldNameFunc = "FieldPrefixed" -> FieldPrefixed(ft)

\* getOpts(ctx).findStructFieldByNameFunc(value, name)
CallFindStructFieldByNameFunc(env, value, name) ==
    CASE getOpts(env).findStructFieldByNameFunc = "DefaultFindStructFieldByName" ->
           DefaultFindStructFieldByName(value, name)

\* what the lookup by name r comes to: ErrFieldNotFound(i), or the pointer to
\* the field (fv.Addr() unless the field is a pointer itself) and its metadata
NamedResolved(r, i) ==
    IF ~r.ok
    THEN [ok |-> FALSE, err |-> NewInternalError(ErrFieldNotFound(i))]
    ELSE IF r.fv.kind # "ptr"
    THEN Found(AddrOf(r.ft.addr, r.ft.type, r.fv), r.ft)
    ELSE Found(r.fv, r.ft)

\* what the lookup by address r comes to: ErrFieldNotFound(i), or r
PointerResolved(r, i) ==
    IF ~r.ok
    THEN [ok |-> FALSE, err |-> NewInternalError(ErrFieldNotFound(i))]
    ELSE r

\* the resolution of locator fr, number i from 0: the pointer fv to the field
\* and its metadata ft, or the internal error that ends the call
Resolve(value, fr, i, env) ==
    IF fr.isNamedField
    THEN NamedResolved(CallFindStructFieldByNameFunc(env, value, fr.name), i)
    ELSE IF fr.fieldPtr.kind # "ptr"
    THEN [ok |-> FALSE, err |-> NewInternalError(ErrFieldPointer(i))]
    ELSE PointerResolved(IF fr.fieldPtr.isNil THEN NotFound
                         ELSE findStructField(value, fr.fieldPtr), i)

\* ---- locators that resolve themselves: the FieldRules interface of field.go
\* (NamedFieldRules, PointerFieldRules).  dyn is the locator's dynamic type.

ErrSkipFieldNotFound == [t |-> "sentinel", code |-> "ErrSkipFieldNotFound"]

\* ErrFieldRequired.SetParams(map[string]any{"field_name": name})
ErrFieldRequired(name) ==
    [t |-> "leaf", code |-> "validation_field_required", field_name |-> Join(name)]

\* func NamedField(name, rules...) *NamedFieldRules
NamedFieldRules(name, rules) ==
    [dyn |-> "NamedFieldRules", name |-> name, rules |-> rules,
     validatePtrValue |-> FALSE, skipIfNotFound |-> FALSE]

\* func NamedStructField(name, fields...) *NamedFieldRules
NamedStructFieldRules(name, fields) ==
    [dyn |-> "NamedFieldRules", name |-> name, rules |-> <<StructRule(fields)>>,
     validatePtrValue |-> TRUE, skipIfNotFound |-> FALSE]

\* func (n *NamedFieldRules) SetSkipIfNotFound(skip) *NamedFieldRules
SetSkipIfNotFound(n, skip) == [n EXCEPT !.skipIfNotFound = skip]

\* func Field(fieldPtr, rules...) FieldRules
PointerFieldRules(fieldPtr, rules) ==
    [dyn |-> "PointerFieldRules", fieldPtr |-> fieldPtr, rules |-> rules,
     validatePtrValue |-> FALSE]

\* func FieldStruct(structPtr, fields...) *PointerFieldRules
PointerStructFieldRules(structPtr, fields) ==
    [dyn |-> "PointerFieldRules", fieldPtr |-> structPtr,
     rules |-> <<StructRule(fields)>>, validatePtrValue |-> TRUE]

\* func toFieldName(name): name is not empty
toFieldName(name) ==
    IF IsLower(name[1]) THEN <<ToUpper(name[1])>> \o Tail(name) ELSE name

\* what FindStructField returns: (ft, value, err)
Located(ft, value) == [err |-> Nil, ft |-> ft, value |-> value]
NotLocated(e) == [err |-> e, ft |-> NotFound, value |-> NilInterface]

\* mutant: the skipIfNotFound flag is not looked at
NamedLocated_NeverSkips(n, r) ==
    IF ~r.ok
    THEN NotLocated(ErrFieldRequired(n.name))
    ELSE Located(r.ft, IF ~n.validatePtrValue THEN r.fv
                       ELSE AddrOf(r.ft.addr, r.ft.type, r.fv))

\* NamedFieldRules.FindStructField from line 98 on: r is the field of that
\* name, fv its address (line 94), so fv.Elem() is the field itself
NamedLocated(n, r) ==
    IF ~r.ok
    THEN IF n.skipIfNotFound
         THEN NotLocated(ErrSkipFieldNotFound)
         ELSE NotLocated(ErrFieldRequired(n.name))
    ELSE Located(r.ft, IF ~n.validatePtrValue THEN r.fv
                       ELSE AddrOf(r.ft.addr, r.ft.type, r.fv))

\* func (n *NamedFieldRules) FindStructField(structValue, idx): name[0] of the
\* empty name is out of range
NamedFindStructField(n, structValue, idx) ==
    IF Len(n.name) = 0 THEN NotLocated(Panic)
    ELSE NamedLocated(n, FieldByName(structValue, toFieldName(n.name)))

\* PointerFieldRules.FindStructField from line 170 on
PointerLocated(f, r, idx) ==
    IF ~r.ok
    THEN NotLocated(NewInternalError(ErrFieldNotFound(idx)))
    ELSE Located(r.ft, IF ~f.validatePtrValue THEN f.fieldPtr.elem ELSE f.fieldPtr)

\* func (f *PointerFieldRules) FindStructField(structValue, idx)
PointerFindStructField(f, structValue, idx) ==
    IF f.fieldPtr.kind # "ptr"
    THEN NotLocated(NewInternalError(ErrFieldPointer(idx)))
    ELSE PointerLocated(f, IF f.fieldPtr.isNil THEN NotFound
                           ELSE findStructField(structValue, f.fieldPtr), idx)

\* fr.FindStructField(structValue, idx): the method of fr's dynamic type
FindStructField(fr, structValue, idx) ==
    CASE fr.dyn = "NamedFieldRules" -> NamedFindStructField(fr, structValue, idx)
      [] fr.dyn = "PointerFieldRules" -> PointerFindStructField(fr, structValue, idx)

\* the locator is a FieldRules interface value (field.go), not a *FieldRules
\* struct (struct.go)
IsFieldRulesInterface(fr) == "dyn" \in DOMAIN fr

\* mutant: an InternalError a field validation returns is stored like any error
IsFatal_Never(e) == FALSE

\* ie, ok := err.(InternalError); ok && ie.InternalError() != nil
IsFatal(e) == e.t = "internal" /\ e.cause # Nil

\* for name, value := range es { errs[name] = value }
Merge(errs, es) ==
    [k \in (DOMAIN errs) \cup (DOMAIN es) |-> IF k \in DOMAIN es THEN es[k] ELSE errs[k]]

\* mutant: the error of an anonymous field is stored under the field's key
\* like that of every other field
FieldValidated_NeverFlattens(value, fields, i, errs, env, ft, v) ==
    LET l == <<Ev("field", env, i - 1, Join(ft.name), NoRule)>> \o v.log
    IN  IF v.err = Nil
        THEN [FieldsLoop(value, fields, i + 1, errs, env) EXCEPT !.log = l \o @]
        ELSE IF v.err = Panic \/ IsFatal(v.err)
        THEN Ret(v.err, l)
        ELSE [FieldsLoop(value, fields, i + 1,
                         Put(errs, CallGetErrorFieldNameFunc(env, ft), v.err), env)
              EXCEPT !.log = l \o @]

\* the loop body of ValidateStructWithContext from line 104 on: v is what
\* ValidateWithContext returned for the field ft of locator number i
FieldValidated(value, fields, i, errs, env, ft, v) ==
    LET l == <<Ev("field", env, i - 1, Join(ft.name), NoRule)>> \o v.log
    IN  IF v.err = Nil
        THEN [FieldsLoop(value, fields, i + 1, errs, env) EXCEPT !.log = l \o @]
        ELSE IF v.err = Panic \/ IsFatal(v.err)
        THEN Ret(v.err, l)
        ELSE [FieldsLoop(value, fields, i + 1,
                         IF ft.anonymous /\ v.err.t = "errors"
                         THEN Merge(errs, v.err.m)
                         ELSE Put(errs, CallGetErrorFieldNameFunc(env, ft), v.err),
                         env)
              EXCEPT !.log = l \o @]

\* what the record loop does with f, the result of locator number i's own
\* FindStructField: the skip sentinel moves on to the next locator, any other
\* resolution failure ends the call as an InternalError, and a located field's
\* value is validated under the locator's rules like that of every locator
FieldLocated(value, fields, i, errs, env, f) ==
    IF f.err = ErrSkipFieldNotFound
    THEN FieldsLoop(value, fields, i + 1, errs, env)
    ELSE IF f.err = Panic
    THEN Ret(Panic, <<>>)
    ELSE IF f.err # Nil
    THEN Ret(IF f.err.t = "internal" THEN f.err ELSE NewInternalError(f.err), <<>>)
    ELSE FieldValidated(value, fields, i, errs, env, f.ft,
             ValidateWithContext(f.value, fields[i].rules,
                                 [env EXCEPT !.sd = @ + 1, !.wd = 0, !.pd = 0]))

\* mutant: a locator that resolves to no field is recorded like a failing
\* field and the loop goes on
FieldResolved_AggregatesFault(value, fields, i, errs, env, r) ==
    IF ~r.ok THEN FieldsLoop(value, fields, i + 1, Put(errs, "?", r.err), env)
    ELSE IF ~fields[i].validatePtrValue /\ r.fv.isNil THEN Ret(Panic, <<>>)
    ELSE FieldValidated(value, fields, i, errs, env, r.ft,
             ValidateWithContext(IF ~fields[i].validatePtrValue THEN r.fv.elem ELSE r.fv,
                                 fields[i].rules,
                                 [env EXCEPT !.sd = @ + 1, !.wd = 0, !.pd = 0]))

\* the loop body from line 97 on: r is the resolution of locator number i.
\* fv.Elem().Interface() panics when fv is a nil pointer.
FieldResolved(value, fields, i, errs, env, r) ==
    IF ~r.ok THEN Ret(r.err, <<>>)
    ELSE IF ~fields[i].validatePtrValue /\ r.fv.isNil THEN Ret(Panic, <<>>)
    ELSE FieldValidated(value, fields, i, errs, env, r.ft,
             ValidateWithContext(IF ~fields[i].validatePtrValue THEN r.fv.elem ELSE r.fv,
                                 fields[i].rules,
                                 [env EXCEPT !.sd = @ + 1, !.wd = 0, !.pd = 0]))

\* the loop of ValidateStructWithContext over the locators, from number i on
\* (counted from 1 here), and its tail
FieldsLoop(value, fields, i, errs, env) ==
    IF i > Len(fields)
    THEN Ret(IF Cardinality(DOMAIN errs) > 0 THEN Errors(errs) ELSE Nil, <<>>)
    ELSE IF IsFieldRulesInterface(fields[i])
    THEN FieldLocated(value, fields, i, errs, env, FindStructField(fields[i], value, i - 1))
    ELSE FieldResolved(value, fields, i, errs, env, Resolve(value, fields[i], i - 1, env))

\* mutant: a nil pointer is rejected like every other argument that is no
\* pointer to a struct
ValidateStructWithContext_NilIsError(structPtr, fields, env) ==
    IF structPtr.kind # "ptr" \/ structPtr.isNil \/ structPtr.elem.kind # "struct"
    THEN Ret(NewInternalError(ErrStructPointer), <<>>)
    ELSE FieldsLoop(structPtr.elem, fields, 1, NoEntries, env)

\* mutant: the aggregate is returned whatever its size
ValidateStructWithContext_ReturnsErrs(structPtr, fields, env) ==
    IF structPtr.kind # "ptr" \/ (~structPtr.isNil /\ structPtr.elem.kind # "struct")
    THEN Ret(NewInternalError(ErrStructPointer), <<>>)
    ELSE IF structPtr.isNil
    THEN Ret(Nil, <<>>)
    ELSE LET r == FieldsLoop(structPtr.elem, fields, 1, NoEntries, env)
         IN  IF r.err = Nil THEN Ret(Errors(NoEntries), r.log) ELSE r

\* func ValidateStructWithContext(ctx, structPtr, fields...)
ValidateStructWithContext(structPtr, fields, env) ==
    IF structPtr.kind # "ptr" \/ (~structPtr.isNil /\ structPtr.elem.kind # "struct")
    THEN Ret(NewInternalError(ErrStructPointer), <<>>)
    ELSE IF structPtr.isNil
    THEN Ret(Nil, <<>>)
    ELSE FieldsLoop(structPtr.elem, fields, 1, NoEntries, env)


\* ------------------------------------------------------- the inputs of a call

\* all sequences over S of length at most n
RECURSIVE SeqsUpTo(_, _)
SeqsUpTo(S, n) ==
    IF n = 0 THEN {<<>>}
    ELSE LET shorter == SeqsUpTo(S, n - 1)
         IN  shorter \cup {Append(q, x) : q \in {p \in shorter : Len(p) = n - 1}, x \in S}

\* the orders in which the elements of the set K can be listed
RECURSIVE Orders(_)
Orders(K) ==
    IF K = {} THEN {<<>>}
    ELSE UNION {{<<k>> \o o : o \in Orders(K \ {k})} : k \in K}

\* what a Validate method returns: nil, a leaf error, an InternalError, the
\* Errors a record validation produced, or an Errors it made with no entry
LeafVerdicts == {Nil, Leaf("x"), Leaf("y")}
Verdicts ==
    LeafVerdicts \cup
    {NewInternalError(UserCause), Errors([k \in {"F"} |-> Leaf("x")]), Errors(NoEntries)}

Pass == UserRule("pass", Nil)
FailA == UserRule("failA", Leaf("a"))
FailB == UserRule("failB", Leaf("b"))
\* a rule whose Validate returns Errors{}: not nil, no entries
FailEmpty == UserRule("failEmpty", Errors(NoEntries))

WhenRules ==
    {Else(When(c, r), e) : c \in BOOLEAN, r \in {<<>>, <<FailA>>}, e \in {<<>>, <<FailB>>}}

Rules ==
    {Pass, FailA, FailB, FailEmpty, Skip, SkipWhen(Skip, TRUE), SkipWhen(Skip, FALSE)} \cup
    WhenRules

RuleLists == SeqsUpTo(Rules, MaxRules)

\* the elements a collection can hold, by the kind of its element type
ElemsOfKind(elemKind) ==
    CASE elemKind = "value" -> {Self(e) : e \in LeafVerdicts \cup {NewInternalError(UserCause)}}
      [] elemKind = "ptr" ->
           {PtrTo(Self(e)) : e \in LeafVerdicts} \cup {NilPtr(TRUE, e) : e \in {Nil, Leaf("x")}}
      [] elemKind = "interface" ->
           {Self(e) : e \in LeafVerdicts} \cup {NilInterface, NilPtr(TRUE, Leaf("x"))}

ElemKinds == {"value", "ptr", "interface"}

Keys == {StrKey("a"), StrKey("1"), IntKey(1)}

\* slices and arrays whose element type implements Validatable
Slices ==
    {Slice(k, FALSE, Nil, TRUE, ek, es) :
        k \in {"slice", "array"}, ek \in ElemKinds, es \in {<<>>}} \cup
    UNION {{Slice(k, FALSE, Nil, TRUE, ek, es) :
              k \in {"slice", "array"}, es \in SeqsUpTo(ElemsOfKind(ek), MaxElems)} :
           ek \in ElemKinds}

\* maps whose element type implements Validatable
Maps ==
    UNION {UNION {{Map(FALSE, Nil, TRUE, ek, m) : m \in [K -> ElemsOfKind(ek)]} :
                  K \in {K \in SUBSET Keys : Cardinality(K) <= MaxElems}} :
           ek \in ElemKinds}

\* collections whose element type does not implement Validatable ([]string,
\* []interface{} holding Validatable values) and collection types that have a
\* Validate method of their own
OtherCollections ==
    {Slice("slice", FALSE, Nil, FALSE, "interface", es) :
        es \in SeqsUpTo({Plain, Self(Leaf("x"))}, 1)} \cup
    {Map(FALSE, Nil, FALSE, "interface", m) : m \in [{StrKey("a")} -> {Plain, Self(Leaf("x"))}]} \cup
    {Slice("slice", TRUE, e, TRUE, "value", es) :
        e \in {Nil, Leaf("y")}, es \in SeqsUpTo({Self(Leaf("x"))}, 1)} \cup
    {Map(TRUE, e, TRUE, "value", m) :
        e \in {Nil, Leaf("y")}, m \in [{StrKey("a")} -> {Self(Leaf("x"))}]}

\* values that are no pointers
Direct ==
    {NilInterface, Plain} \cup {Self(e) : e \in Verdicts} \cup
    Slices \cup Maps \cup OtherCollections

\* the values pointer chains are built on: the direct values with at most one
\* element, nil pointers, pointer-receiver Validatables, interface variables
Pointees ==
    {v \in Direct : v.kind \in {"slice", "array"} => Len(v.elems) <= 1} \ 
    {v \in Direct : v.kind = "map" /\ Cardinality(DOMAIN v.m) > 1}

RECURSIVE PtrChains(_, _)
PtrChains(S, n) ==
    IF n = 0 THEN {}
    ELSE LET next == {PtrTo(v) : v \in S \ {NilInterface}} \cup
                     {PtrToInterface(v) : v \in {w \in S : w.kind = "basic" /\ w.impl}}
         IN  next \cup PtrChains(next, n - 1)

Pointers ==
    {NilPtr(i, e) : i \in BOOLEAN, e \in {Nil}} \cup {NilPtr(TRUE, Leaf("x"))} \cup
    {PtrSelf(e) : e \in LeafVerdicts} \cup
    PtrChains(Pointees \cup {NilPtr(FALSE, Nil), PtrSelf(Leaf("x"))}, MaxPtrDepth)

Values == Direct \cup Pointers

\* the keys of the map a value is or points to: the keys rv.MapKeys() lists
RECURSIVE KeysOf(_)
KeysOf(v) ==
    IF v.kind = "map" THEN DOMAIN v.m
    ELSE IF v.kind = "ptr" /\ ~v.isNil THEN KeysOf(v.elem)
    ELSE {}

\* the values every rule list is tried on: one of each shape
CoreValues ==
    {NilInterface, Plain, Self(Nil), Self(Leaf("x")),
     NilPtr(FALSE, Nil), NilPtr(TRUE, Leaf("x")), PtrSelf(Leaf("x")),
     PtrTo(Self(Leaf("x"))), PtrTo(PtrTo(Self(Leaf("x")))), PtrTo(PtrTo(Plain)),
     Slice("slice", FALSE, Nil, TRUE, "value", <<Self(Leaf("x"))>>),
     Slice("slice", TRUE, Leaf("y"), TRUE, "value", <<Self(Leaf("x"))>>),
     PtrTo(Slice("slice", FALSE, Nil, TRUE, "value", <<Self(Leaf("x"))>>)),
     Map(FALSE, Nil, TRUE, "value", [k \in {StrKey("a")} |-> Self(Leaf("x"))])}

ValidateCall(v, rs, o) ==
    [op |-> "ValidateWithContext", value |-> v, rules |-> rs, fields |-> <<>>,
     order |-> o, ctx |-> NoOptions]

\* the records: an Inner{A string `json:"a"`; B string} and a
\*   Record{Inner; Name string `json:"name"`; Email string;
\*          Nested Inner `json:",omitempty"`; Item String123 `json:"-"`;
\*          D *string `json:"d,omitempty"`}
\* stored from address base on; the embedded Inner and its field A share an
\* address
InnerAt(base) ==
    Struct("Inner", FALSE, Nil,
           <<StructField(<<"A">>, "string", <<"a">>, FALSE, base, Plain),
             StructField(<<"B">>, "string", <<>>, FALSE, base + 1, Plain)>>)

RecordAt(base, item, d) ==
    Struct("Record", FALSE, Nil,
           <<StructField(<<"I", "n", "n", "e", "r">>, "Inner", <<>>, TRUE, base, InnerAt(base)),
             StructField(<<"N", "a", "m", "e">>, "string", <<"n", "a", "m", "e">>, FALSE, base + 2, Plain),
             StructField(<<"E", "m", "a", "i", "l">>, "string", <<>>, FALSE, base + 3, Plain),
             StructField(<<"N", "e", "s", "t", "e", "d">>, "Inner",
                         <<",", "o", "m", "i", "t", "e", "m", "p", "t", "y">>, FALSE,
                         base + 4, InnerAt(base + 4)),
             StructField(<<"I", "t", "e", "m">>, "String123", <<"-">>, FALSE, base + 6, item),
             StructField(<<"D">>, "*string",
                         <<"d", ",", "o", "m", "i", "t", "e", "m", "p", "t", "y">>, FALSE,
                         base + 7, d)>>)

Records ==
    {RecordAt(1, item, d) : item \in {Self(Nil), Self(Leaf("x"))},
                            d \in {NilPtr(FALSE, Nil), PtrTo(Plain)}}

\* &f for a field f
AddrOfField(f) == AddrOf(f.addr, f.type, f.value)

\* a rule returning an InternalError, a rule returning an Errors map
Fatal == UserRule("fatal", NewInternalError(UserCause))
FailErrs == UserRule("failErrs", Errors([k \in {"k"} |-> Leaf("c")]))

\* a rule returning an Errors map with the key "name"
FailErrsName == UserRule("failErrsName", Errors([k \in {"name"} |-> Leaf("c")]))

\* the locators tried on the record rec
Locators(rec) ==
    LET Inner == rec.fields[1]
        Name == rec.fields[2]
        Email == rec.fields[3]
        Nested == rec.fields[4]
        Item == rec.fields[5]
        D == rec.fields[6]
        InnerA == Inner.value.fields[1]
        NestedA == Nested.value.fields[1]
    IN  {Field(AddrOfField(Name), <<FailA>>),
         Field(AddrOfField(Email), <<Pass>>),
         Field(AddrOfField(Email), <<FailB>>),
         Field(AddrOfField(Item), <<>>),
         Field(AddrOfField(Item), <<Fatal>>),
         Field(AddrOfField(D), <<>>),
         Field(AddrOfField(Inner), <<FailErrs>>),
         Field(AddrOfField(Inner), <<FailEmpty>>),
         Field(AddrOfField(Inner), <<FailErrsName>>),
         Field(AddrOfField(InnerA), <<FailA>>),
         Field(AddrOfField(Nested), <<FailErrs>>),
         Field(AddrOfField(NestedA), <<FailA>>),
         Field(AddrOf(Name.addr + 20, "string", Plain), <<FailA>>),
         Field(Plain, <<FailA>>),
         FieldStruct(AddrOfField(Nested), <<Field(AddrOfField(NestedA), <<FailA>>)>>),
         FieldStruct(AddrOfField(Nested), <<Field(AddrOfField(NestedA), <<Pass>>)>>),
         FieldStruct(AddrOfField(Inner), <<Field(AddrOfField(InnerA), <<FailA>>)>>),
         FieldStruct(AddrOfField(Nested), <<Field(AddrOfField(Name), <<FailA>>)>>),
         NamedField(<<"n", "a", "m", "e">>, <<FailA>>),
         NamedField(<<"E", "m", "a", "i", "l">>, <<FailB>>),
         NamedField(<<"a">>, <<FailA>>),
         NamedField(<<"o", "t", "h", "e", "r">>, <<FailA>>),
         NamedField(<<"d">>, <<Pass>>),
         NamedField(<<>>, <<FailA>>),
         NamedStructField(<<"n", "e", "s", "t", "e", "d">>, <<NamedField(<<"a">>, <<FailA>>)>>)}

\* the self-resolving locators tried on the record rec
FieldRulesLocators(rec) ==
    LET Name == rec.fields[2]
        Nested == rec.fields[4]
        NestedA == Nested.value.fields[1]
    IN  {NamedFieldRules(<<"n", "a", "m", "e">>, <<FailA>>),
         NamedFieldRules(<<"E", "m", "a", "i", "l">>, <<Pass>>),
         NamedFieldRules(<<"d">>, <<Pass>>),
         NamedFieldRules(<<"o", "t", "h", "e", "r">>, <<FailA>>),
         NamedFieldRules(<<>>, <<FailA>>),
         SetSkipIfNotFound(NamedFieldRules(<<"o", "t", "h", "e", "r">>, <<FailA>>), TRUE),
         SetSkipIfNotFound(NamedFieldRules(<<"e", "m", "a", "i", "l">>, <<FailB>>), TRUE),
         NamedStructFieldRules(<<"n", "e", "s", "t", "e", "d">>,
             <<SetSkipIfNotFound(NamedFieldRules(<<"z">>, <<FailA>>), TRUE),
               NamedFieldRules(<<"b">>, <<FailB>>)>>),
         PointerFieldRules(AddrOfField(Name), <<FailA>>),
         PointerFieldRules(AddrOf(Name.addr + 20, "string", Plain), <<FailA>>),
         PointerStructFieldRules(AddrOfField(Nested),
             <<PointerFieldRules(AddrOfField(NestedA), <<FailA>>)>>)}

\* the locators tried under options of the caller's
NamingLocators(rec) ==
    {Field(AddrOfField(rec.fields[2]), <<FailA>>),
     Field(AddrOfField(rec.fields[3]), <<FailB>>),
     Field(AddrOfField(rec.fields[4]), <<FailErrs>>),
     Field(AddrOfField(rec.fields[5]), <<>>),
     NamedField(<<"d">>, <<FailA>>)}

\* the contexts of a call: context.Background(), and what WithOptions returns
\* for it with a function of the caller's and with a nil function
Contexts ==
    {NoOptions,
     WithOptions(NoOptions, <<WithGetErrorFieldNameFunc("FieldPrefixed")>>),
     WithOptions(NoOptions, <<WithGetErrorFieldNameFunc(NilFunc)>>)}

StructCallCtx(p, fs, ctx) ==
    [op |-> "ValidateStructWithContext", value |-> p, rules |-> <<>>, fields |-> fs,
     order |-> <<>>, ctx |-> ctx]

StructCall(p, fs) == StructCallCtx(p, fs, NoOptions)

\* calls of ValidateStructWithContext: every list of locators on every record,
\* and the arguments that are no pointer to a struct
InitStruct ==
    \/ \E rec \in Records :
           \E fs \in SeqsUpTo(Locators(rec), MaxFields) :
               call = StructCall(AddrOf(1, "Record", rec), fs)
    \/ \E rec \in Records :
           \E fs \in SeqsUpTo(FieldRulesLocators(rec), MaxFields) :
               call = StructCall(AddrOf(1, "Record", rec), fs)
    \/ \E p \in {NilInterface, NilPtr(FALSE, Nil), Plain, PtrTo(Plain),
                 RecordAt(1, Self(Nil), PtrTo(Plain)),
                 PtrTo(AddrOf(1, "Record", RecordAt(1, Self(Nil), PtrTo(Plain))))} :
           \E rec \in Records :
               \E fs \in SeqsUpTo(Locators(rec), 1) : call = StructCall(p, fs)
    \/ \E rec \in Records, ctx \in Contexts \ {NoOptions} :
           \E fs \in SeqsUpTo(NamingLocators(rec), MaxFields) :
               call = StructCallCtx(AddrOf(1, "Record", rec), fs, ctx)


\* ------------------------------------------------------- the state machine

Env0 == [wd |-> 0, pd |-> 0, sd |-> 0, order |-> call.order, opts |-> call.ctx]

\* calls of ValidateWithContext: every rule list on the core values, and every
\* value under no rule and under one passing rule; order is the order in which
\* the runtime will list the keys of the value's map
InitValidate ==
    \/ \E v \in CoreValues, rs \in RuleLists :
           \E o \in Orders(KeysOf(v)) : call = ValidateCall(v, rs, o)
    \/ \E v \in Values, rs \in {<<>>, <<Pass>>} :
           \E o \in Orders(KeysOf(v)) : call = ValidateCall(v, rs, o)

\* a value of a type of no size: type Z struct{}
ZeroSize == Struct("Z", FALSE, Nil, <<>>)

\* PRecord{*Inner; OtherField string} stored at base, inner being its pointer
PRecordAt(base, inner) ==
    Struct("PRecord", FALSE, Nil,
           <<StructField(<<"I", "n", "n", "e", "r">>, "*Inner", <<>>, TRUE, base, inner),
             StructField(<<"O", "t", "h", "e", "r">>, "string", <<>>, FALSE, base + 1, Plain)>>)

\* ZRecord{Y Z; Nested ZNested} with ZNested{Z Z; X string} stored at base: a
\* field of no size has the address of the field after it, so Y, Nested,
\* Nested.Z and Nested.X share an address
ZNestedAt(base) ==
    Struct("ZNested", FALSE, Nil,
           <<StructField(<<"Z">>, "Z", <<>>, FALSE, base, ZeroSize),
             StructField(<<"X">>, "string", <<>>, FALSE, base, Plain)>>)

ZRecordAt(base) ==
    Struct("ZRecord", FALSE, Nil,
           <<StructField(<<"Y">>, "Z", <<>>, FALSE, base, ZeroSize),
             StructField(<<"N", "e", "s", "t", "e", "d">>, "ZNested", <<>>, FALSE, base,
                         ZNestedAt(base))>>)

\* the struct a field holds, directly or behind a pointer; one without fields
\* when it holds none
HeldStruct(f) ==
    IF f.value.kind = "struct" THEN f.value
    ELSE IF f.value.kind = "ptr" /\ ~f.value.isNil /\ f.value.elem.kind = "struct"
    THEN f.value.elem
    ELSE ZeroSize

\* the fields of the struct s, and those of the structs its fields hold
OwnFieldsOf(s) == {s.fields[i] : i \in 1..Len(s.fields)}
InnerFieldsOf(s) == UNION {OwnFieldsOf(HeldStruct(f)) : f \in OwnFieldsOf(s)}

\* the pointers tried on the struct s: to each of its fields, to each field of
\* a struct it holds, and to the same fields of another instance of s
FieldPointers(s) ==
    LET here == {AddrOfField(f) : f \in OwnFieldsOf(s) \cup InnerFieldsOf(s)}
    IN  here \cup {AddrOf(q.addr + 20, q.type, q.elem) : q \in here}

FindCall(s, q) ==
    [op |-> "findStructField", value |-> s, fieldPtr |-> q, rules |-> <<>>,
     fields |-> <<>>, order |-> <<>>, ctx |-> NoOptions]

\* calls of findStructField: every pointer on every record
InitFind ==
    \E s \in Records \cup {PRecordAt(1, AddrOf(11, "Inner", InnerAt(11))),
                            PRecordAt(1, NilPtr(FALSE, Nil)),
                            ZRecordAt(1)} :
        \E q \in FieldPointers(s) : call = FindCall(s, q)

\* calls of Else on a rule When returned, or on the rule an earlier Else returned
ElseCall(r, rs) ==
    [op |-> "Else", receiver |-> r, value |-> NilInterface, rules |-> rs,
     fields |-> <<>>, order |-> <<>>, ctx |-> NoOptions]

InitElse ==
    \E c \in BOOLEAN, rs \in {<<>>, <<FailA>>}, e0 \in {<<>>, <<FailA>>},
       es \in SeqsUpTo({Pass, FailA, FailB}, MaxRules) :
        call = ElseCall(Else(When(c, rs), e0), es)

\* ---- rules that carry the error they return (string.go)

\* NewError(code, message), and e.SetMessage(message): the error e with
\* another message
NewError(code, message) == [t |-> "leaf", code |-> code, message |-> message]
SetMessage(e, message) == [e EXCEPT !.message = message]

\* func NewStringRule(validator, message) StringRule
NewStringRule(message) ==
    [type |-> "StringRule", validate |-> "validateMe", err |-> NewError("", message)]

\* func NewStringRuleWithError(validator, err) StringRule
NewStringRuleWithError(e) == [type |-> "StringRule", validate |-> "validateMe", err |-> e]

\* the package's rules Required, NilOrNotEmpty and NotNil
Required ==
    [type |-> "requiredRule", skipNil |-> FALSE,
     err |-> NewError("validation_required", "cannot be blank")]
NilOrNotEmpty ==
    [type |-> "requiredRule", skipNil |-> TRUE,
     err |-> NewError("validation_nil_or_not_empty_required", "cannot be blank")]
NotNil ==
    [type |-> "notNilRule", err |-> NewError("validation_not_nil_required", "is required")]

\* mutant: the method has a pointer receiver
StringRuleError_PointerReceiver(r, message) ==
    [receiver |-> [r EXCEPT !.err = SetMessage(@, message)],
     result |-> [r EXCEPT !.err = SetMessage(@, message)]]

\* func (r StringRule) Error(message) StringRule: r is a copy of the receiver
StringRuleError(r, message) ==
    [receiver |-> r, result |-> [r EXCEPT !.err = SetMessage(@, message)]]

\* mutant: the error object is not stored
StringRuleErrorObject_Ignored(r, e) == [receiver |-> r, result |-> r]

\* func (r StringRule) ErrorObject(err) StringRule
StringRuleErrorObject(r, e) == [receiver |-> r, result |-> [r EXCEPT !.err = e]]

\* func (r StringRule) Validate(ctx, value): v tells whether the value is nil,
\* empty, a string validateMe accepts or one it refuses
StringRuleValidate(r, v) ==
    IF v \in {"nil", "empty"} THEN Nil
    ELSE IF v = "valid" THEN Nil
    ELSE r.err

\* Error and ErrorObject of the rules Required, NilOrNotEmpty and NotNil
OtherRuleError(r, message) ==
    [receiver |-> r, result |-> [r EXCEPT !.err = SetMessage(@, message)]]
OtherRuleErrorObject(r, e) == [receiver |-> r, result |-> [r EXCEPT !.err = e]]

\* Validate of the rules Required, NilOrNotEmpty and NotNil
OtherRuleValidate(r, v) ==
    IF r.type = "notNilRule" THEN (IF v = "nil" THEN r.err ELSE Nil)
    ELSE IF v = "nil" THEN (IF r.skipNil THEN Nil ELSE r.err)
    ELSE IF v = "empty" THEN r.err
    ELSE Nil

\* r.Error(message), r.ErrorObject(e), r.Validate(ctx, v) by the type of r
ErrorMethod(r, message) ==
    IF r.type = "StringRule" THEN StringRuleError(r, message) ELSE OtherRuleError(r, message)
ErrorObjectMethod(r, e) ==
    IF r.type = "StringRule" THEN StringRuleErrorObject(r, e) ELSE OtherRuleErrorObject(r, e)
ValidateMethod(r, v) ==
    IF r.type = "StringRule" THEN StringRuleValidate(r, v) ELSE OtherRuleValidate(r, v)

\* the values the rules are tried on
RuleInputs == {"nil", "empty", "valid", "invalid"}

\* the rules modified: those of the package, new StringRules, and rules an
\* earlier Error or ErrorObject returned
ModifiedRules ==
    LET first == {Required, NilOrNotEmpty, NotNil, NewStringRule("wrong"),
                  NewStringRuleWithError(NewError("code", "abc"))}
    IN  first \cup {ErrorMethod(r, "abc").result : r \in first}
              \cup {ErrorObjectMethod(r, NewError("C", "other")).result : r \in first}

ModifierCall(op, r, arg) ==
    [op |-> op, receiver |-> r, arg |-> [a |-> arg], value |-> NilInterface, rules |-> <<>>,
     fields |-> <<>>, order |-> <<>>, ctx |-> NoOptions]

\* calls of Error and of ErrorObject
InitModifier ==
    \/ \E r \in ModifiedRules, m \in {"abc", "correct", "123"} :
           call = ModifierCall("Error", r, m)
    \/ \E r \in ModifiedRules, e \in {NewError("code", "abc"), NewError("C", "other")} :
           call = ModifierCall("ErrorObject", r, e)

\* the address of the package's defaultOptions
DefaultAddr == 1

\* a context: its parent (0 for none), whether it was made by WithOptions or
\* for a key of the caller's, and for the former the address of its options,
\* the context WithOptions was called on (0 for nil) and the options given
Background == [parent |-> 0, key |-> "none", val |-> 0, from |-> 0, given |-> <<>>]

\* no value returned
NoRet == [receiver |-> NilInterface, result |-> NilInterface]

Init ==
    /\ pc = "ready"
    /\ (InitValidate \/ InitStruct \/ InitElse \/ InitFind \/ InitModifier)
    /\ err = Nil
    /\ log = <<>>
    /\ ret = NoRet
    /\ heap = <<defaultOptions>>
    /\ ctxs = <<Background>>
    /\ pending = {}
    /\ mem = <<>>
    /\ stack = <<>>

\* the call ValidateWithContext(ctx, value, rules...) runs and returns
DoValidateWithContext ==
    /\ pc = "ready"
    /\ call.op = "ValidateWithContext"
    /\ LET r == ValidateWithContext(call.value, call.rules, Env0)
       IN  err' = r.err /\ log' = r.log
    /\ pc' = "done"
    /\ UNCHANGED <<call, ret, heap, ctxs, pending, mem, stack>>

\* the call ValidateStructWithContext(ctx, structPtr, fields...) runs and returns
DoValidateStructWithContext ==
    /\ pc = "ready"
    /\ call.op = "ValidateStructWithContext"
    /\ LET r == ValidateStructWithContext(call.value, call.fields, Env0)
       IN  err' = r.err /\ log' = r.log
    /\ pc' = "done"
    /\ UNCHANGED <<call, ret, heap, ctxs, pending, mem, stack>>

\* the call call.receiver.Else(call.rules...) runs and returns
DoElse ==
    /\ pc = "ready"
    /\ call.op = "Else"
    /\ ret' = ElseMethod(call.receiver, call.rules)
    /\ pc' = "done"
    /\ UNCHANGED <<call, err, log, heap, ctxs, pending, mem, stack>>

\* the call findStructField(structValue, fieldValue) runs and returns
DoFindStructField ==
    /\ pc = "ready"
    /\ call.op = "findStructField"
    /\ ret' = [receiver |-> NilInterface,
               result |-> findStructField(call.value, call.fieldPtr)]
    /\ pc' = "done"
    /\ UNCHANGED <<call, err, log, heap, ctxs, pending, mem, stack>>

\* the call r.Error(message) runs and returns
DoError ==
    /\ pc = "ready"
    /\ call.op = "Error"
    /\ ret' = ErrorMethod(call.receiver, call.arg.a)
    /\ pc' = "done"
    /\ UNCHANGED <<call, err, log, heap, ctxs, pending, mem, stack>>

\* the call r.ErrorObject(err) runs and returns
DoErrorObject ==
    /\ pc = "ready"
    /\ call.op = "ErrorObject"
    /\ ret' = ErrorObjectMethod(call.receiver, call.arg.a)
    /\ pc' = "done"
    /\ UNCHANGED <<call, err, log, heap, ctxs, pending, mem, stack>>

Next ==
    \/ DoValidateWithContext
    \/ DoValidateStructWithContext
    \/ DoElse
    \/ DoFindStructField
    \/ DoError
    \/ DoErrorObject

Spec == Init /\ [][Next]_vars

\* ------------------------------------------------- the options of a context

\* ctx.Value(optionsCtxKey): the address held by the nearest context made by
\* WithOptions, from context c upwards; 0 when there is none or c is nil (0)
RECURSIVE CtxValue(_, _)
CtxValue(cs, c) ==
    IF c = 0 THEN 0
    ELSE IF cs[c].key = "options" THEN cs[c].val
    ELSE CtxValue(cs, cs[c].parent)

\* func getOpts(ctx) *options
getOptsPtr(cs, c) == IF c # 0 /\ CtxValue(cs, c) # 0 THEN CtxValue(cs, c) ELSE DefaultAddr

\* func GetOptions(ctx) Options
GetOptions(cs, c) == IF c # 0 /\ CtxValue(cs, c) # 0 THEN CtxValue(cs, c) ELSE getOptsPtr(cs, c)

\* func DefaultOptions() Options
DefaultOptions == DefaultAddr

\* mutant: the options of the context are used, not a copy of them
NewOptions_Shared(h, o) == [addr |-> o, heap |-> h]

\* o2 := new(options); *o2 = *o
NewOptions(h, o) == [addr |-> Len(h) + 1, heap |-> Append(h, h[o])]

\* the lists of options a caller passes
OptionLists ==
    {<<>>,
     <<WithValuerFunc("first")>>,
     <<WithGetErrorFieldNameFunc("FieldPrefixed")>>,
     <<WithValuerFunc(NilFunc)>>,
     <<WithGetErrorFieldNameFunc(NilFunc), WithFindStructFieldByNameFunc(NilFunc)>>,
     <<WithValuerFunc("first"), WithValuerFunc("second")>>}

\* the sources hold two option.go: call.build tells which one is built
DefaultOptionsOf(build) == IF build = 1 THEN defaultOptions1 ELSE defaultOptions

\* the lists of options that option.go has the constructors of
OptionListsOf(build) ==
    {opts \in OptionLists :
        \A i \in 1..Len(opts) : opts[i].field \in DOMAIN DefaultOptionsOf(build)}

\* WithOptions(c, opts) up to the loop: c is a context or nil (0)
WithOptionsCalled(c, opts) ==
    /\ pc = "options"
    /\ Len(ctxs) + Cardinality(pending) < MaxCtxs + 1
    /\ LET n == NewOptions(heap, getOptsPtr(ctxs, c))
       IN  /\ heap' = n.heap
           /\ pending' = pending \cup {[ctx |-> c, o2 |-> n.addr, opts |-> opts, given |-> opts]}
    /\ UNCHANGED <<pc, call, err, log, ret, ctxs, mem, stack>>

\* one turn of the loop of the call p: opt(o2)
WithOptionsApplied(p) ==
    /\ pc = "options"
    /\ p.opts # <<>>
    /\ heap' = [heap EXCEPT ![p.o2] = IF call.build = 1 THEN AssignOption(Head(p.opts), @)
                                      ELSE ApplyOption(Head(p.opts), @)]
    /\ pending' = (pending \ {p}) \cup {[p EXCEPT !.opts = Tail(@)]}
    /\ UNCHANGED <<pc, call, err, log, ret, ctxs, mem, stack>>

\* the call p returns context.WithValue(ctx, optionsCtxKey, o2), ctx being
\* context.Background() when it was nil
WithOptionsReturned(p) ==
    /\ pc = "options"
    /\ p.opts = <<>>
    /\ ctxs' = Append(ctxs, [parent |-> IF p.ctx = 0 THEN 1 ELSE p.ctx, key |-> "options",
                             val |-> p.o2, from |-> p.ctx, given |-> p.given])
    /\ pending' = pending \ {p}
    /\ UNCHANGED <<pc, call, err, log, ret, heap, mem, stack>>

\* context.WithValue(c, key, v) for a key of the caller's
WithValueCalled(c) ==
    /\ pc = "options"
    /\ Len(ctxs) + Cardinality(pending) < MaxCtxs + 1
    /\ ctxs' = Append(ctxs, [parent |-> c, key |-> "other", val |-> 0, from |-> c,
                             given |-> <<>>])
    /\ UNCHANGED <<pc, call, err, log, ret, heap, pending, mem, stack>>

\* GetOptions(c) is called, c being a context or nil (0)
GetOptionsCalled(c) ==
    /\ pc = "options"
    /\ ret' = [receiver |-> [ctx |-> c], result |-> [addr |-> GetOptions(ctxs, c)]]
    /\ pc' = "got"
    /\ UNCHANGED <<call, err, log, heap, ctxs, pending, mem, stack>>

OptionsCall(build) ==
    [op |-> "WithOptions", value |-> NilInterface, rules |-> <<>>, fields |-> <<>>,
     order |-> <<>>, ctx |-> NoOptions, build |-> build]

InitOptions ==
    /\ pc = "options"
    /\ \E build \in {1, 2} : call = OptionsCall(build)
    /\ err = Nil
    /\ log = <<>>
    /\ ret = NoRet
    /\ heap = <<DefaultOptionsOf(call.build)>>
    /\ ctxs = <<Background>>
    /\ pending = {}
    /\ mem = <<>>
    /\ stack = <<>>

NextOptions ==
    \/ \E c \in 0..Len(ctxs), opts \in OptionListsOf(call.build) : WithOptionsCalled(c, opts)
    \/ \E p \in pending : WithOptionsApplied(p)
    \/ \E p \in pending : WithOptionsReturned(p)
    \/ \E c \in 1..Len(ctxs) : WithValueCalled(c)
    \/ \E c \in 0..Len(ctxs) : GetOptionsCalled(c)

SpecOptions == InitOptions /\ [][NextOptions]_vars

\* ------------------------------------- the dereference recursion, step by step
\* ValidateWithContext on values that point into memory: each activation of
\* part_000:64-102 is one step, the activations that have not returned are on
\* the stack.  A variable of mem has a declared type (a basic type, a pointer
\* type or an interface type) and the value it holds; a pointer value names
\* the variable it points to (to, 0 for nil), so a value can reach itself:
\* var x interface{}; x = &x.

\* the pointer to variable number k of the memory; nil for k = 0
Ref(k) == [kind |-> "ptr", isNil |-> k = 0, impl |-> FALSE, verdict |-> Nil, to |-> k]

Cell(type, val) == [type |-> type, val |-> val]

\* what a variable of a memory of n variables can be
CellsOver(n) ==
    {Cell("basic", v) : v \in {Plain, Self(Leaf("x"))}} \cup
    {Cell("ptr", Ref(k)) : k \in 0..n} \cup
    {Cell("interface", v) : v \in {NilInterface, Self(Leaf("x"))} \cup {Ref(k) : k \in 0..n}}

\* what can be handed to ValidateWithContext as value interface{}
ArgumentsOver(n) == {NilInterface, Plain, Self(Leaf("x"))} \cup {Ref(k) : k \in 0..n}

\* the goroutine's stack holds so many activations at most; more than any
\* chain of pointers that ends needs
StackLimit == MaxCells + 2

\* rv.Elem().Interface() for a pointer rv that is not nil: the value of the
\* variable it points to, for a variable of interface type the value inside
ElemInterface(m, rv) == m[rv.to].val

\* the rule lists of the calls
RecursionRules == {<<>>, <<Pass>>, <<FailA>>, <<Skip>>, <<Pass, FailB>>}

RecursionCall(v, rs) ==
    [op |-> "ValidateWithContext", value |-> v, rules |-> rs, fields |-> <<>>,
     order |-> <<>>, ctx |-> NoOptions]

InitRecursion ==
    /\ pc = "running"
    /\ \E n \in 0..MaxCells :
           /\ mem \in [1..n -> CellsOver(n)]
           /\ \E v \in ArgumentsOver(n), rs \in RecursionRules : call = RecursionCall(v, rs)
    /\ stack = <<call.value>>
    /\ err = Nil
    /\ log = <<>>
    /\ ret = NoRet
    /\ heap = <<defaultOptions>>
    /\ ctxs = <<Background>>
    /\ pending = {}

\* the innermost activation: its value, its rules (the recursion at
\* part_000:98 passes none) and its depth
Top == stack[Len(stack)]
TopRules == IF Len(stack) = 1 THEN call.rules ELSE <<>>
TopEnv == [wd |-> 0, pd |-> Len(stack) - 1, sd |-> 0, order |-> <<>>, opts |-> NoOptions]

\* the activation comes to the recursion of part_000:97-98: its rules passed
\* and its value is a pointer that is not nil and not Validatable
AtRecursion(rr) ==
    /\ ~rr.returned
    /\ ~IsNilReference(Top)
    /\ ~IsValidatable(Top)
    /\ Top.kind \in {"ptr", "interface"}

\* part_000:69-86, 101: the innermost activation returns, and with it every
\* activation below it (each returns what the recursion returned)
Returns(rr) ==
    /\ pc = "running"
    /\ ~AtRecursion(rr)
    /\ err' = IF rr.returned THEN rr.err
              ELSE IF IsNilReference(Top) THEN Nil
              ELSE IF IsValidatable(Top) THEN Top.verdict
              ELSE Nil
    /\ log' = log \o rr.log \o
                  (IF ~rr.returned /\ ~IsNilReference(Top) /\ IsValidatable(Top)
                   THEN <<Ev("self", TopEnv, 0, "", NoRule)>> ELSE <<>>)
    /\ stack' = <<>>
    /\ pc' = "returned"
    /\ UNCHANGED <<call, ret, heap, ctxs, pending, mem>>

\* part_000:97-98: ValidateWithContext(ctx, rv.Elem().Interface())
Recurses(rr) ==
    /\ pc = "running"
    /\ AtRecursion(rr)
    /\ Len(stack) < StackLimit
    /\ stack' = Append(stack, ElemInterface(mem, Top))
    /\ log' = log \o rr.log \o <<Ev("deref", TopEnv, 0, "", NoRule)>>
    /\ UNCHANGED <<pc, call, err, ret, heap, ctxs, pending, mem>>

\* the same with no room left on the stack: the runtime ends the program
\* (fatal error: stack overflow) and the call never returns
Overflows(rr) ==
    /\ pc = "running"
    /\ AtRecursion(rr)
    /\ Len(stack) = StackLimit
    /\ pc' = "overflow"
    /\ UNCHANGED <<call, err, log, ret, heap, ctxs, pending, mem, stack>>

ValidateReturns == Returns(RunRules(Top, TopRules, 1, TopEnv))
ValidateRecurses == Recurses(RunRules(Top, TopRules, 1, TopEnv))
StackOverflows == Overflows(RunRules(Top, TopRules, 1, TopEnv))

NextRecursion == ValidateReturns \/ ValidateRecurses \/ StackOverflows

\* one goroutine runs the call: a step that can be taken is taken
SpecRecursion == InitRecursion /\ [][NextRecursion]_vars /\ WF_vars(NextRecursion)

\* ------------------------------------------------------------ the claims

Validated == pc = "done" /\ call.op = "ValidateWithContext"

\* the steps of the top-level activation's own rule loop and dispatch (not the
\* steps taken inside a When rule it invoked)
Own(l) == SelectSeq(l, LAMBDA e : e.wd = 0 /\ e.sd = 0)

\* the rule invocations of the top-level rule list
OwnRules(l) == SelectSeq(l, LAMBDA e : e.wd = 0 /\ e.sd = 0 /\ e.op = "rule")

\* what rule number i returns for the value of the call
RuleResult(i) == RuleValidate(call.rules[i], call.value, Env0).err

IsSkipRule(rule) == rule.t = "skip" /\ rule.skip

\* no rule of the call's list stops the loop: none skips, none returns an error
AllRulesPass ==
    \A i \in 1..Len(call.rules) : ~IsSkipRule(call.rules[i]) /\ RuleResult(i) = Nil

\* C1: when a rule with the skip flag set sits at position k and every rule
\* before k passes, ValidateWithContext returns nil, and its own steps are the
\* invocations of the rules before k only: no rule from k on, no self-validation
\* of the value, no map, slice or pointer recursion.
C1_SkipReturnsNil ==
    Validated =>
        \A k \in 1..Len(call.rules) :
            (IsSkipRule(call.rules[k]) /\ \A j \in 1..(k - 1) : RuleResult(j) = Nil) =>
                /\ err = Nil
                /\ \A n \in 1..Len(Own(log)) :
                       Own(log)[n].op = "rule" /\ Own(log)[n].idx < k

\* a failing Validatable validated with Skip in front of a failing rule
C1_Witness ==
    /\ Validated
    /\ Len(call.rules) = 2
    /\ IsSkipRule(call.rules[1])
    /\ call.rules[2] = FailA
    /\ call.value = Self(Leaf("x"))
    /\ err = Nil

\* the first rule that stops the loop by an error, 0 when there is none
FirstFailing ==
    LET F == {k \in 1..Len(call.rules) :
                 /\ RuleResult(k) # Nil
                 /\ \A j \in 1..(k - 1) : ~IsSkipRule(call.rules[j]) /\ RuleResult(j) = Nil}
    IN  IF F = {} THEN 0 ELSE CHOOSE k \in F : TRUE

\* C2: the rules of the list are invoked in list order, each at most once; at
\* the first rule that returns an error ValidateWithContext returns exactly
\* that error, and its own steps are the invocations of the rules up to that
\* one: no later rule, no self-validation, no recursion.
C2_RuleShortCircuit ==
    Validated =>
        /\ \A n \in 1..Len(OwnRules(log)) :
               OwnRules(log)[n].idx = n /\ OwnRules(log)[n].rule = call.rules[n]
        /\ FirstFailing > 0 =>
               /\ err = RuleResult(FirstFailing)
               /\ Len(OwnRules(log)) = FirstFailing
               /\ \A n \in 1..Len(Own(log)) : Own(log)[n].op = "rule"

\* a failing Validatable validated with a failing rule followed by another
\* failing rule
C2_Witness ==
    /\ Validated
    /\ call.rules = <<FailA, FailB>>
    /\ call.value = Self(Leaf("x"))
    /\ err = Leaf("a")

\* a list without its element number k
Without(q, k) == SubSeq(q, 1, k - 1) \o SubSeq(q, k + 1, Len(q))

\* the steps of a log without the invocations of skipRule.Validate and without
\* the positions of the rules in their lists
Invoked(l) ==
    LET kept == SelectSeq(l, LAMBDA e : e.rule.t # "skip")
    IN  [n \in 1..Len(kept) |-> [kept[n] EXCEPT !.idx = 0]]

\* C3: a call whose rule list holds Skip.When(false) at position k returns the
\* same error and invokes the same rules and Validate methods in the same order
\* as the call without that rule; a call whose list holds Skip at position k
\* returns what the call with Skip.When(true) there returns.
C3_SkipWhen ==
    Validated =>
        \A k \in 1..Len(call.rules) :
            /\ call.rules[k] = SkipWhen(Skip, FALSE) =>
                   LET r == ValidateWithContext(call.value, Without(call.rules, k), Env0)
                   IN  err = r.err /\ Invoked(log) = Invoked(r.log)
            /\ call.rules[k] = Skip =>
                   LET r == ValidateWithContext(call.value,
                                [call.rules EXCEPT ![k] = SkipWhen(SkipWhen(Skip, FALSE), TRUE)],
                                Env0)
                   IN  err = r.err /\ log = r.log

\* Skip.When(false) in front of a failing rule: the rule's error is returned
C3_Witness ==
    /\ Validated
    /\ call.rules = <<SkipWhen(Skip, FALSE), FailA>>
    /\ err = Leaf("a")
    /\ Len(log) = 2

IsNilValue(v) == v = NilInterface \/ (v.kind = "ptr" /\ v.isNil)

\* C4: when no rule stops the loop and the value is a nil pointer or the nil
\* interface, ValidateWithContext returns nil and nothing but the rules was
\* invoked: no Validate method, no dereference, no recursion, at any depth.
C4_NilIsValid ==
    (Validated /\ IsNilValue(call.value) /\ AllRulesPass) =>
        /\ err = Nil
        /\ \A n \in 1..Len(log) : log[n].op = "rule"

\* a nil pointer of a type whose Validate would fail, under a passing rule
C4_Witness ==
    /\ Validated
    /\ call.value = NilPtr(TRUE, Leaf("x"))
    /\ call.rules = <<Pass>>
    /\ err = Nil

\* C5: when no rule stops the loop and the value is not nil and implements
\* Validatable, ValidateWithContext returns what the value's Validate returns,
\* invokes it as its last step, and enters no map, slice or pointer recursion,
\* also when the value is a collection of Validatable elements.
C5_SelfValidation ==
    (Validated /\ ~IsNilValue(call.value) /\ call.value.impl /\ AllRulesPass) =>
        /\ err = call.value.verdict
        /\ Len(Own(log)) = Len(call.rules) + 1
        /\ Own(log)[Len(Own(log))].op = "self"
        /\ Own(log)[Len(Own(log))].pd = 0
        /\ \A n \in 1..Len(Own(log)) : Own(log)[n].op \in {"rule", "self"}

\* a slice type with its own Validate and a failing element: only the
\* slice's own verdict is returned
C5_Witness ==
    /\ Validated
    /\ call.value = Slice("slice", TRUE, Leaf("y"), TRUE, "value", <<Self(Leaf("x"))>>)
    /\ call.rules = <<>>
    /\ err = Leaf("y")

\* the keys of an error: those of an Errors map, none otherwise
ErrKeys(e) == IF e.t = "errors" THEN DOMAIN e.m ELSE {}

\* the Validate invocations of the elements of the call's own collection
OwnElems(l) == SelectSeq(l, LAMBDA e : e.wd = 0 /\ e.sd = 0 /\ e.pd = 0 /\ e.op = "elem")

IsCollectionOfValidatable(v) ==
    v.kind \in {"slice", "array", "map"} /\ v.elemImpl /\ ~v.impl

\* the indices of the slice's elements that are not skipped: an element of
\* pointer type that is nil and a nil interface element are skipped
VisitedIndices(rv) ==
    {i \in 0..(Len(rv.elems) - 1) :
        /\ ~(rv.elemKind = "ptr" /\ rv.elems[i + 1].isNil)
        /\ rv.elems[i + 1] # NilInterface}

FailingIndices(rv) == {i \in VisitedIndices(rv) : rv.elems[i + 1].verdict # Nil}

\* C6: for a slice or array of Validatable elements and no rule stopping the
\* loop, the result is nil or an Errors map; its keys are exactly the decimal
\* indices of the visited elements whose Validate returns an error, each mapped
\* to that error; nil elements of pointer type are not visited; every other
\* element is visited once, in index order, also after a failure.
C6_SliceAggregation ==
    (Validated /\ call.value.kind \in {"slice", "array"}
               /\ IsCollectionOfValidatable(call.value) /\ AllRulesPass) =>
        LET rv == call.value
            ev == OwnElems(log)
        IN  /\ err.t \in {"nil", "errors"}
            /\ ErrKeys(err) = {Itoa(i) : i \in FailingIndices(rv)}
            /\ \A i \in FailingIndices(rv) : err.m[Itoa(i)] = rv.elems[i + 1].verdict
            /\ {ev[n].idx : n \in 1..Len(ev)} = VisitedIndices(rv)
            /\ \A n \in 1..(Len(ev) - 1) : ev[n].idx < ev[n + 1].idx

\* a slice whose two elements both fail: both indices are keys
C6_Witness ==
    /\ Validated
    /\ call.value.kind = "slice"
    /\ IsCollectionOfValidatable(call.value)
    /\ call.rules = <<>>
    /\ ErrKeys(err) = {"0", "1"}

\* the keys of the map's entries that are visited and fail
FailingKeys(rv) ==
    {k \in DOMAIN rv.m : rv.m[k] # NilInterface /\ rv.m[k].verdict # Nil}

\* C7: for a map of Validatable elements and no rule stopping the loop, the
\* result is nil or an Errors map whose keys are exactly the textual forms of
\* the keys of the entries whose Validate returns an error, and the result is
\* the same for every order in which the map's keys are listed.
C7_MapAggregation ==
    (Validated /\ call.value.kind = "map"
               /\ IsCollectionOfValidatable(call.value) /\ AllRulesPass) =>
        /\ err.t \in {"nil", "errors"}
        /\ ErrKeys(err) = {Sprint(k) : k \in FailingKeys(call.value)}
        /\ \A o \in Orders(DOMAIN call.value.m) :
               ValidateWithContext(call.value, call.rules, [Env0 EXCEPT !.order = o]).err = err

\* the value the engine reaches from v by dereferencing non-nil pointers that
\* are not themselves Validatable
RECURSIVE Target(_)
Target(v) ==
    IF v.kind = "ptr" /\ ~v.isNil /\ ~v.impl THEN Target(v.elem) ELSE v

\* the number of pointers dereferenced on the way
RECURSIVE Depth(_)
Depth(v) ==
    IF v.kind = "ptr" /\ ~v.isNil /\ ~v.impl THEN 1 + Depth(v.elem) ELSE 0

\* the value behind all the non-nil pointers in front of it
RECURSIVE Pointee(_)
Pointee(v) == IF v.kind = "ptr" /\ ~v.isNil THEN Pointee(v.elem) ELSE v

OwnDerefs(l) == SelectSeq(l, LAMBDA e : e.wd = 0 /\ e.sd = 0 /\ e.op = "deref")

IsEmptyErrors(e) == e.t = "errors" /\ DOMAIN e.m = {}

C9_PointerDereference ==
    /\ (Validated /\ call.value.kind = "ptr" /\ ~call.value.isNil
                  /\ ~call.value.impl /\ AllRulesPass) =>
           /\ Len(OwnRules(log)) = Len(call.rules)
           /\ \A n \in 1..Len(OwnRules(log)) : OwnRules(log)[n].idx = n
           /\ \A n \in 1..Len(log) : log[n].op = "rule" => log[n].pd = 0
           /\ Len(OwnDerefs(log)) = Depth(call.value)
           /\ \A n \in 1..Len(OwnDerefs(log)) : OwnDerefs(log)[n].pd = n - 1
           /\ err = ValidateWithContext(call.value.elem, <<>>, Env0).err
    /\ (Validated /\ call.value.kind = "ptr" /\ ~call.value.isNil /\ call.rules = <<>>
                  /\ (Pointee(call.value).impl \/ IsCollectionOfValidatable(Pointee(call.value)))) =>
           err = ValidateWithContext(call.value.elem, <<>>, Env0).err

\* a pointer to a pointer to a failing Validatable, under one passing rule: the
\* rule runs once, the Validate method's error is returned
C9_Witness ==
    /\ Validated
    /\ call.value = PtrTo(PtrTo(Self(Leaf("x"))))
    /\ call.rules = <<Pass>>
    /\ err = Leaf("x")
    /\ Len(OwnRules(log)) = 1

HasFailingElement(v) ==
    IF v.kind = "map"
    THEN \E k \in DOMAIN v.m : v.m[k].verdict # Nil
    ELSE \E i \in 1..Len(v.elems) : v.elems[i].verdict # Nil

\* C10 as stated: with an empty rule list the call fails only if the value
\* itself implements Validatable or is itself a collection of Validatable
\* elements one of which fails.
C10_AsStated ==
    (Validated /\ call.rules = <<>> /\ err # Nil) =>
        \/ call.value.impl
        \/ IsCollectionOfValidatable(call.value) /\ HasFailingElement(call.value)

\* C10, amended: with an empty rule list the call fails only if the value, or
\* the value reached from it by dereferencing non-nil pointers, implements
\* Validatable or is a collection of Validatable elements one of which fails.
C10_EmptyRules ==
    (Validated /\ call.rules = <<>> /\ err # Nil) =>
        \/ Target(call.value).impl
        \/ IsCollectionOfValidatable(Target(call.value)) /\ HasFailingElement(Target(call.value))

\* a pointer to a slice with a failing element, no rules: the call fails
C10_Witness ==
    /\ Validated
    /\ call.rules = <<>>
    /\ call.value = PtrTo(Slice("slice", FALSE, Nil, TRUE, "value", <<Self(Leaf("x"))>>))
    /\ ErrKeys(err) = {"0"}

\* the steps of a log taken out of the When rule they ran in
Unnest(l) == [n \in 1..Len(l) |-> [l[n] EXCEPT !.wd = @ - 1]]

\* the list a When rule delegates to
Chosen(w) == IF w.condition THEN w.rules ELSE w.elseRules

\* C11: a When rule at the head of the rule list returns what
\* ValidateWithContext returns for the value under the rule's list when its
\* condition is true and under its else list when it is false, invoking the
\* same rules and Validate methods; its error, if any, is the call's error.
\* When gives an empty else list.  Else returns a rule that differs from its
\* receiver in the else list only, and the receiver is as it was.
C11_WhenElse ==
    /\ (Validated /\ Len(call.rules) > 0 /\ call.rules[1].t = "when") =>
           LET w == call.rules[1]
               direct == ValidateWithContext(call.value, Chosen(w), Env0)
               inner == SelectSeq(log, LAMBDA e : e.wd > 0)
           IN  /\ RuleValidate(w, call.value, Env0).err = direct.err
               /\ direct.err # Nil => err = direct.err /\ Unnest(inner) = direct.log
               /\ SubSeq(Unnest(inner), 1, Len(direct.log)) = direct.log
    /\ (pc = "done" /\ call.op = "Else") =>
           /\ ret.receiver = call.receiver
           /\ ret.result.condition = call.receiver.condition
           /\ ret.result.rules = call.receiver.rules
           /\ ret.result.elseRules = call.rules
    /\ \A c \in BOOLEAN : When(c, call.rules).elseRules = <<>>

\* a false condition with a failing then-list and a failing else-list: the
\* else-list's error is returned
C11_Witness ==
    /\ Validated
    /\ call.rules = <<Else(When(FALSE, <<FailA>>), <<FailB>>)>>
    /\ call.value = Self(Leaf("x"))
    /\ err = Leaf("b")

ValidatedStruct == pc = "done" /\ call.op = "ValidateStructWithContext"

\* the argument is a pointer to a struct that is not nil
IsStructPointer(v) == v.kind = "ptr" /\ ~v.isNil /\ v.elem.kind = "struct"

\* C12: ValidateStructWithContext returns nil for a nil pointer, and an
\* InternalError with cause ErrStructPointer for an argument that is no
\* pointer or a pointer to something that is no struct; in both cases it
\* resolves no locator and invokes no rule.
C12_RecordPreconditions ==
    (ValidatedStruct /\ ~IsStructPointer(call.value)) =>
        /\ log = <<>>
        /\ err = IF call.value.kind = "ptr" /\ call.value.isNil
                 THEN Nil
                 ELSE NewInternalError(ErrStructPointer)

\* a struct passed by value, with a locator whose rule would fail
C12_Witness ==
    /\ ValidatedStruct
    /\ call.value.kind = "struct"
    /\ Len(call.fields) = 1
    /\ err = NewInternalError(ErrStructPointer)

\* the locators of the call's own loop that were resolved and validated
OwnFields(l) == SelectSeq(l, LAMBDA e : e.op = "field" /\ e.sd = 0)

\* locator number n is a name-based locator with the skip-if-absent flag and
\* its name is that of no field of the record
Skipped(n) ==
    /\ IsFieldRulesInterface(call.fields[n])
    /\ FindStructField(call.fields[n], call.value.elem, n - 1).err = ErrSkipFieldNotFound

\* the positions, from 0, of the locators among the first n that are not skipped
Kept(n) == {j - 1 : j \in {j \in 1..n : ~Skipped(j)}}

\* what the record validation returns under locator number n alone
Single(n) == ValidateStructWithContext(call.value, <<call.fields[n]>>, Env0).err

\* C13: when ValidateStructWithContext meets no internal error, it resolves
\* and validates every locator (but those skipped as absent), in list order,
\* also after a field failed, and what it returns has the entries of every
\* locator whose field failed.
C13_NoShortCircuit ==
    (ValidatedStruct /\ IsStructPointer(call.value) /\ err.t # "internal") =>
        /\ {OwnFields(log)[n].idx : n \in 1..Len(OwnFields(log))} = Kept(Len(call.fields))
        /\ \A n \in 1..(Len(OwnFields(log)) - 1) :
               OwnFields(log)[n].idx < OwnFields(log)[n + 1].idx
        /\ \A n \in 1..Len(call.fields) :
               Single(n).t = "errors" =>
                   err.t = "errors" /\ DOMAIN Single(n).m \subseteq DOMAIN err.m

\* what validating the field of locator number n comes to, by itself: the
\* InternalError of its failed resolution (which names the locator's
\* position), the panic of its value extraction, or what ValidateWithContext
\* returns for the extracted value under the locator's rules
Extracted(fr, r) == IF ~fr.validatePtrValue THEN r.fv.elem ELSE r.fv

FieldOutcome(fr, r) ==
    IF ~r.ok THEN r.err
    ELSE IF ~fr.validatePtrValue /\ r.fv.isNil THEN Panic
    ELSE ValidateWithContext(Extracted(fr, r), fr.rules, Env0).err

\* the same for a locator that resolves itself; a skipped locator comes to nil
LocatedOutcome(fr, f) ==
    IF f.err = ErrSkipFieldNotFound THEN Nil
    ELSE IF f.err = Panic \/ f.err.t = "internal" THEN f.err
    ELSE IF f.err # Nil THEN NewInternalError(f.err)
    ELSE ValidateWithContext(f.value, fr.rules, Env0).err

FieldResult(n) ==
    IF IsFieldRulesInterface(call.fields[n])
    THEN LocatedOutcome(call.fields[n],
                        FindStructField(call.fields[n], call.value.elem, n - 1))
    ELSE FieldOutcome(call.fields[n],
                      Resolve(call.value.elem, call.fields[n], n - 1, Env0))

\* the first locator whose field validation comes to an InternalError, every
\* locator before it returning nil or an ordinary error; 0 when there is none
FirstFault ==
    LET F == {n \in 1..Len(call.fields) :
                 /\ FieldResult(n).t = "internal"
                 /\ \A j \in 1..(n - 1) : FieldResult(j).t \in {"nil", "leaf", "errors"}}
    IN  IF F = {} THEN 0 ELSE CHOOSE n \in F : TRUE

\* C14: when a locator's resolution fails (the field pointer is no pointer or
\* addresses no field of the record) or its rules return an InternalError with
\* a cause, directly or from a nested record validation, the call returns that
\* InternalError itself, whatever the earlier locators' fields returned, and
\* no later locator is resolved or validated.
C14_InternalErrorPrecedence ==
    (ValidatedStruct /\ IsStructPointer(call.value) /\ FirstFault > 0) =>
        /\ err = FieldResult(FirstFault)
        /\ err.t = "internal"
        /\ \A n \in 1..Len(OwnFields(log)) : OwnFields(log)[n].idx < FirstFault
        /\ Kept(FirstFault - 1) \subseteq {OwnFields(log)[n].idx : n \in 1..Len(OwnFields(log))}

\* a failing field followed by a pointer into another record: the
\* InternalError is returned, the first field's error is dropped
C14_Witness ==
    /\ ValidatedStruct
    /\ Len(call.fields) = 2
    /\ FieldResult(1) = Leaf("a")
    /\ err = NewInternalError(ErrFieldNotFound(1))

\* no entry of the Errors map e, at any depth, is an InternalError
RECURSIVE NoInternalInside(_)
NoInternalInside(e) ==
    e.t = "errors" =>
        \A k \in DOMAIN e.m : e.m[k].t # "internal" /\ NoInternalInside(e.m[k])

\* C15: no Errors map that ValidateWithContext or ValidateStructWithContext
\* returns holds an InternalError as an entry, at any depth.
C15_InternalNeverAggregated ==
    pc = "done" => NoInternalInside(err)

\* ---- C16

\* locator number n is name-based, carries the skip-if-absent flag, and the
\* record has no field of its name
AbsentSkippable(n) ==
    LET fr == call.fields[n]
    IN  /\ IsFieldRulesInterface(fr)
        /\ fr.dyn = "NamedFieldRules"
        /\ fr.skipIfNotFound
        /\ Len(fr.name) > 0
        /\ ~FieldByName(call.value.elem, toFieldName(fr.name)).ok

\* what the call returns and invokes when locator number n is left out
Omitting(n) == ValidateStructWithContext(call.value, Without(call.fields, n), Env0)

\* C16: a name-based locator with the skip-if-absent flag whose name is that of
\* no field of the record is skipped entirely: no rule of it is invoked, it
\* adds no key and no error, and the other locators are processed as if it
\* were not in the list.
C16_SkipIfAbsent ==
    (ValidatedStruct /\ IsStructPointer(call.value)) =>
        \A n \in 1..Len(call.fields) :
            AbsentSkippable(n) =>
                /\ \A k \in 1..Len(OwnFields(log)) : OwnFields(log)[k].idx # n - 1
                /\ Len(log) = Len(Omitting(n).log)
                /\ Omitting(n).err.t # "internal" => err = Omitting(n).err
                /\ Omitting(n).err.t = "internal" => err.t = "internal"

\* an absent skip-flagged locator is followed by a locator whose field fails
C16_Witness ==
    /\ ValidatedStruct
    /\ IsStructPointer(call.value)
    /\ Len(call.fields) = 2
    /\ AbsentSkippable(1)
    /\ ~AbsentSkippable(2)
    /\ Len(OwnFields(log)) = 1
    /\ OwnFields(log)[1].idx = 1
    /\ err.t = "errors"

\* ---- C17

\* locator number n is name-based, carries no skip-if-absent flag, and the
\* record has no field of its name
AbsentNamed(n) ==
    LET fr == call.fields[n]
    IN  IF IsFieldRulesInterface(fr)
        THEN /\ fr.dyn = "NamedFieldRules"
             /\ ~fr.skipIfNotFound
             /\ Len(fr.name) > 0
             /\ ~FieldByName(call.value.elem, toFieldName(fr.name)).ok
        ELSE /\ fr.isNamedField
             /\ ~DefaultFindStructFieldByName(call.value.elem, fr.name).ok

\* the loop gets to locator number n: every locator before it returned nil or
\* an ordinary error
Reached(n) == \A j \in 1..(n - 1) : FieldResult(j).t \in {"nil", "leaf", "errors"}

FieldMeta(n) ==
    IF IsFieldRulesInterface(call.fields[n])
    THEN FindStructField(call.fields[n], call.value.elem, n - 1).ft
    ELSE Resolve(call.value.elem, call.fields[n], n - 1, Env0).ft

\* the entries locator number n adds to the aggregate: none when its field
\* passed, the entries of its Errors when the field is anonymous, and else its
\* error under the field's error key
Entries(n) ==
    IF FieldResult(n) = Nil THEN NoEntries
    ELSE IF FieldMeta(n).anonymous /\ FieldResult(n).t = "errors"
    THEN FieldResult(n).m
    ELSE Put(NoEntries, CallGetErrorFieldNameFunc(Env0, FieldMeta(n)), FieldResult(n))

\* the entries of the first n locators, a later entry replacing an earlier
\* one of the same key
RECURSIVE EntriesUpTo(_)
EntriesUpTo(n) ==
    IF n = 0 THEN NoEntries
    ELSE [k \in (DOMAIN EntriesUpTo(n - 1)) \cup (DOMAIN Entries(n)) |->
             IF k \in DOMAIN Entries(n) THEN Entries(n)[k] ELSE EntriesUpTo(n - 1)[k]]

\* C18: the Errors of an anonymous (embedded) field is flattened: each of its
\* entries goes into the call's aggregate under its own key and the field
\* gets no key of its own; an error that is no Errors, and every error of a
\* field that is not anonymous, is one entry under the field's error key, a
\* nested Errors staying nested.
C18_AnonymousFlattening ==
    (ValidatedStruct /\ IsStructPointer(call.value) /\ err.t \notin {"internal", "panic"}) =>
        /\ err = IF EntriesUpTo(Len(call.fields)) = NoEntries THEN Nil
                 ELSE Errors(EntriesUpTo(Len(call.fields)))
        /\ \A n \in 1..Len(call.fields) :
               FieldResult(n) # Nil =>
                   IF FieldMeta(n).anonymous /\ FieldResult(n).t = "errors"
                   THEN \A k \in DOMAIN FieldResult(n).m : k \in DOMAIN err.m
                   ELSE CallGetErrorFieldNameFunc(Env0, FieldMeta(n)) \in DOMAIN err.m

\* the nested validation of the embedded Inner and of the field Nested both
\* fail: the first is flattened, the second nested under "Nested"
C18_Witness ==
    /\ ValidatedStruct
    /\ IsStructPointer(call.value)
    /\ Len(call.fields) = 2
    /\ FieldResult(1) = Errors(Put(NoEntries, "a", Leaf("a")))
    /\ FieldMeta(1).anonymous
    /\ FieldResult(2) = Errors(Put(NoEntries, "a", Leaf("a")))
    /\ ~FieldMeta(2).anonymous
    /\ err = Errors(Put(Put(NoEntries, "a", Leaf("a")), "Nested",
                        Errors(Put(NoEntries, "a", Leaf("a")))))

\* ---- C19

\* the part of the field's json tag before its first comma
TagName(f) ==
    IF \E n \in 1..Len(f.json) : f.json[n] = ","
    THEN SubSeq(f.json, 1, (CHOOSE n \in 1..Len(f.json) :
                               f.json[n] = "," /\ \A j \in 1..(n - 1) : f.json[j] # ",") - 1)
    ELSE f.json

\* the key the claim gives the field f under the options of the call's context
ErrorKey(f) ==
    IF call.ctx # NoOptions /\ call.ctx.getErrorFieldNameFunc = "FieldPrefixed"
    THEN "field_" \o Join(f.name)
    ELSE IF TagName(f) # <<>> /\ f.json # <<"-">> THEN Join(TagName(f)) ELSE Join(f.name)

\* C19: the error of a failing field that is not flattened is stored under the
\* key that the getErrorFieldNameFunc of the options attached to the call's
\* context returns for the field; the default returns the part of the json tag
\* before the first comma when that part is not empty and the tag is not "-",
\* and the declared name of the field otherwise.
C19_ErrorKeyNaming ==
    (ValidatedStruct /\ IsStructPointer(call.value) /\ err.t \notin {"internal", "panic"}) =>
        \A n \in 1..Len(call.fields) :
            (FieldResult(n) # Nil /\ ~(FieldMeta(n).anonymous /\ FieldResult(n).t = "errors")) =>
                /\ err.t = "errors"
                /\ ErrorKey(FieldMeta(n)) \in DOMAIN err.m
                /\ (\A j \in (n + 1)..Len(call.fields) : FieldResult(j) = Nil) =>
                       err.m[ErrorKey(FieldMeta(n))] = FieldResult(n)
                /\ Len(call.fields) = 1 => DOMAIN err.m = {ErrorKey(FieldMeta(n))}

\* under the caller's function "field_" + f.Name the fields Name and D, tagged
\* "name" and "d,omitempty", fail as "field_Name" and "field_D"
C19_Witness ==
    /\ ValidatedStruct
    /\ IsStructPointer(call.value)
    /\ Len(call.fields) = 2
    /\ call.ctx # NoOptions
    /\ call.ctx.getErrorFieldNameFunc = "FieldPrefixed"
    /\ err.t = "errors"
    /\ DOMAIN err.m = {"field_Name", "field_D"}

\* ---- C20

FindCalled == pc = "done" /\ call.op = "findStructField"

\* the fields findStructField looks at: those of the struct and, at any depth,
\* those of the structs it embeds, directly or by pointer
RECURSIVE Searched(_)
Searched(s) ==
    OwnFieldsOf(s) \cup
    UNION {Searched(Embedded(f)) :
              f \in {f \in OwnFieldsOf(s) : f.anonymous /\ Embedded(f).kind = "struct"}}

\* the pointer q points into a struct held by a field of s that is not embedded
IntoNested(s, q) ==
    \E f \in OwnFieldsOf(s) :
        /\ ~f.anonymous
        /\ f.value.kind = "struct"
        /\ \E g \in OwnFieldsOf(f.value) : q = AddrOfField(g)

\* the pointer q points to nothing stored in s
IntoOtherInstance(s, q) ==
    \A f \in OwnFieldsOf(s) \cup InnerFieldsOf(s) : f.addr # q.addr

\* what findStructField returns is a searched field of the pointer's address
\* and pointee type, and it returns one whenever there is one; an embedded
\* struct and its first field are told apart
FindsByAddressAndType ==
    /\ ret.result.ok =>
           /\ ret.result.ft \in Searched(call.value)
           /\ ret.result.ft.addr = call.fieldPtr.addr
           /\ ret.result.ft.type = call.fieldPtr.type
    /\ (\E f \in Searched(call.value) :
            f.addr = call.fieldPtr.addr /\ f.type = call.fieldPtr.type) => ret.result.ok
    /\ \A f \in OwnFieldsOf(call.value) :
           (f.anonymous /\ Embedded(f).kind = "struct") =>
               /\ call.fieldPtr = AddrOfField(f) => ret.result.ft = f
               /\ call.fieldPtr = AddrOfField(Embedded(f).fields[1]) =>
                      ret.result.ft = Embedded(f).fields[1]

\* C20: findStructField returns the metadata of a field of the record or of
\* its embedded structs only if that field has the pointer's address and the
\* pointee's type, so that an embedded struct and its first field resolve to
\* different fields, and it returns nil for a pointer into another instance
\* and for a pointer into a nested struct that is not embedded.
C20_PointerIdentity ==
    FindCalled =>
        /\ FindsByAddressAndType
        /\ IntoOtherInstance(call.value, call.fieldPtr) => ~ret.result.ok
        /\ IntoNested(call.value, call.fieldPtr) => ~ret.result.ok

\* ---- C21

\* the contexts WithOptions returned
OptionsCtxs == {c \in 1..Len(ctxs) : ctxs[c].key = "options"}

\* the context c and the contexts it was derived from
RECURSIVE Enclosing(_)
Enclosing(c) == IF c = 0 THEN {} ELSE {c} \cup Enclosing(ctxs[c].parent)

\* the address of the options of the nearest context WithOptions returned
\* among c and the contexts around it, that of the default when there is none
NearestOptions(c) ==
    LET around == Enclosing(c) \cap OptionsCtxs
    IN  IF around = {} THEN DefaultAddr
        ELSE ctxs[CHOOSE d \in around : \A e \in around : e <= d].val

\* the options o are the options base but for the functions the options
\* given replace: a function no option is given for is that of base, and one
\* whose last option carries a function that is not nil is that function
Overrides(o, base, given) ==
    /\ DOMAIN o = DOMAIN base
    /\ \A field \in DOMAIN base :
           LET at == {i \in 1..Len(given) : given[i].field = field}
               last == CHOOSE i \in at : \A j \in at : j <= i
           IN  /\ at = {} => o[field] = base[field]
               /\ (at # {} /\ given[last].f # NilFunc) => o[field] = given[last].f
               /\ o[field] \in {base[field]} \cup {given[i].f : i \in at}

\* C21: the options of a context WithOptions returned are a freshly allocated
\* value equal to the options of the context it was called on (the default for
\* nil and for a context without options) but for the functions the given
\* options replace; no call, finished or under way, changes the options of
\* another context or the default; GetOptions returns the options of the
\* nearest enclosing WithOptions, or the default.
C21_OptionsCopyOnOverride ==
    pc \in {"options", "got"} =>
        /\ heap[DefaultAddr] = DefaultOptionsOf(call.build)
        /\ \A c \in OptionsCtxs :
               /\ Overrides(heap[ctxs[c].val], heap[NearestOptions(ctxs[c].from)], ctxs[c].given)
               /\ ctxs[c].val # DefaultAddr
               /\ \A d \in OptionsCtxs \ {c} : ctxs[d].val # ctxs[c].val
               /\ \A q \in pending : q.o2 # ctxs[c].val
        /\ \A q \in pending : q.o2 # DefaultAddr
        /\ ret # NoRet => ret.result.addr = NearestOptions(ret.receiver.ctx)

\* a context with a valuer of the caller's, and derived from it, while a call
\* on nil is under way, one with a naming function: the second has both, the
\* first still the default naming function
C21_Witness ==
    /\ pc = "got"
    /\ Len(ctxs) = 3
    /\ ctxs[2].from = 1 /\ ctxs[2].given = <<WithValuerFunc("first")>>
    /\ ctxs[3].from = 2 /\ ctxs[3].given = <<WithGetErrorFieldNameFunc("FieldPrefixed")>>
    /\ heap[ctxs[3].val].valuerFunc = "first"
    /\ heap[ctxs[3].val].getErrorFieldNameFunc = "FieldPrefixed"
    /\ heap[ctxs[2].val].getErrorFieldNameFunc = "DefaultGetErrorFieldName"
    /\ ret # NoRet
    /\ ret.receiver.ctx = 3
    /\ ret.result.addr = ctxs[3].val

\* ---- C28

\* every function of the options at address a is not nil
AllFunctionsSet(a) == \A field \in DOMAIN heap[a] : heap[a][field] # NilFunc

\* C28: the default options and the options of every context, also those a
\* call of WithOptions is building, have all of their functions non-nil: an
\* option given a nil function leaves the function of the parent in place.
C28_FunctionsNeverNil ==
    pc \in {"options", "got"} => \A a \in 1..Len(heap) : AllFunctionsSet(a)

\* ---- C22

ModifierCalled == pc = "done" /\ call.op \in {"Error", "ErrorObject"}

\* the fields of the rule r but its error
Rest(r) == [f \in (DOMAIN r) \ {"err"} |-> r[f]]

\* C22: Error(message) and ErrorObject(err) return a new rule that differs
\* from the rule they are called on in its error only: Error gives it the
\* message and keeps the code, ErrorObject gives it the error object; the rule
\* they are called on is as before and returns its original error when it is
\* validated afterwards.
C22_ModifiersCopyOnWrite ==
    ModifierCalled =>
        /\ ret.receiver = call.receiver
        /\ \A v \in RuleInputs :
               ValidateMethod(ret.receiver, v) \in {Nil, call.receiver.err}
        /\ \E v \in RuleInputs : ValidateMethod(ret.receiver, v) = call.receiver.err
        /\ Rest(ret.result) = Rest(call.receiver)
        /\ call.op = "Error" =>
               /\ ret.result.err.message = call.arg.a
               /\ ret.result.err.code = call.receiver.err.code
        /\ call.op = "ErrorObject" => ret.result.err = call.arg.a
        /\ \E v \in RuleInputs : ValidateMethod(ret.result, v) = ret.result.err

\* the test of part_002: v.Error("correct") on a StringRule with code "code"
\* and message "abc"
C22_Witness ==
    /\ ModifierCalled
    /\ call.op = "Error"
    /\ call.receiver = NewStringRuleWithError(NewError("code", "abc"))
    /\ call.arg.a = "correct"
    /\ ret.result.err = NewError("code", "correct")
    /\ ValidateMethod(ret.receiver, "invalid") = NewError("code", "abc")

\* ---- C23

\* locator number n is name-based
IsNamed(n) ==
    IF IsFieldRulesInterface(call.fields[n]) THEN call.fields[n].dyn = "NamedFieldRules"
    ELSE call.fields[n].isNamedField

\* the name with its first letter in upper case when it is a lowercase ASCII
\* letter, and the name itself otherwise
Normalised(name) ==
    IF name # <<>> /\ IsLower(name[1]) THEN <<ToUpper(name[1])>> \o Tail(name) ELSE name

\* the locators of the call, the name-based ones under their normalised names
NormalisedFields ==
    [n \in 1..Len(call.fields) |->
        IF IsNamed(n) THEN [call.fields[n] EXCEPT !.name = Normalised(@)] ELSE call.fields[n]]

\* C23: a name-based locator is resolved by looking up, by exact name, its
\* name with the first letter upper-cased when that is a lowercase ASCII
\* letter and its name as it is otherwise: the call returns what it returns
\* for the normalised names, a locator the loop gets to is validated as the
\* field of that name, whose metadata gives the error key, and is a
\* resolution failure when there is no such field.
C23_NameNormalisation ==
    (ValidatedStruct /\ IsStructPointer(call.value)) =>
        /\ err.t = ValidateStructWithContext(call.value, NormalisedFields, Env0).err.t
        /\ err.t # "internal" =>
               err = ValidateStructWithContext(call.value, NormalisedFields, Env0).err
        /\ \A n \in 1..Len(call.fields) :
               (IsNamed(n) /\ Reached(n)) =>
                   LET r == FieldByName(call.value.elem, Normalised(call.fields[n].name))
                   IN  IF r.ok
                       THEN \/ \E k \in 1..Len(OwnFields(log)) :
                                  /\ OwnFields(log)[k].idx = n - 1
                                  /\ OwnFields(log)[k].key = Join(r.ft.name)
                            \/ err = Panic
                       ELSE \/ err.t = "internal"
                            \/ /\ IsFieldRulesInterface(call.fields[n])
                               /\ call.fields[n].skipIfNotFound
                               /\ err # Panic

\* ---- C24

\* the permutations of 1..n
Perms(n) == {p \in [1..n -> 1..n] : \A i, j \in 1..n : i # j => p[i] # p[j]}

\* the locator list fs in the order p
Permuted(fs, p) == [i \in 1..Len(fs) |-> fs[p[i]]]

\* locator number n resolves to a field of the record
Addresses(n) ==
    IF IsFieldRulesInterface(call.fields[n])
    THEN LET f == FindStructField(call.fields[n], call.value.elem, n - 1)
         IN  f.err = Nil
    ELSE Resolve(call.value.elem, call.fields[n], n - 1, Env0).ok

\* the locators that resolve address pairwise distinct fields
DistinctFields ==
    \A i, j \in 1..Len(call.fields) :
        (i # j /\ Addresses(i) /\ Addresses(j)) => FieldMeta(i) # FieldMeta(j)

\* the keys locator number n may add: the error name of its field, and for
\* an anonymous field the keys of the Errors its rules return
KeysOfLocator(n) ==
    IF ~Addresses(n) THEN {}
    ELSE {CallGetErrorFieldNameFunc(Env0, FieldMeta(n))}
             \cup (IF FieldMeta(n).anonymous /\ FieldResult(n).t = "errors"
                   THEN DOMAIN FieldResult(n).m ELSE {})

\* C24: for a record and locators that address pairwise distinct fields and
\* raise no internal error, ValidateStructWithContext returns the same Errors
\* map, key by key, for every permutation of the locator list, and each key
\* is the resolved error name of an addressed field (for an embedded field,
\* a key of its flattened Errors).
C24_LocatorOrderIndependence ==
    (ValidatedStruct /\ IsStructPointer(call.value) /\ DistinctFields
         /\ err.t \notin {"internal", "panic"}) =>
        /\ \A p \in Perms(Len(call.fields)) :
               ValidateStructWithContext(call.value, Permuted(call.fields, p), Env0).err = err
        /\ err.t = "errors" =>
               DOMAIN err.m \subseteq UNION {KeysOfLocator(n) : n \in 1..Len(call.fields)}

\* the error names of the fields the locators address are pairwise distinct
DistinctKeys ==
    \A i, j \in 1..Len(call.fields) :
        i # j => KeysOfLocator(i) \cap KeysOfLocator(j) = {}

\* ---- C25

\* the entry of the map rv under key k is a nil pointer (the element type
\* being a pointer type) or a nil interface (it being an interface type)
IsNilEntry(rv, k) ==
    \/ rv.elemKind = "ptr" /\ rv.m[k].isNil
    \/ rv.elemKind = "interface" /\ rv.m[k] = NilInterface

\* no other entry of rv has the textual key of k
OnlyKey(rv, k) == \A k2 \in DOMAIN rv.m : Sprint(k2) = Sprint(k) => k2 = k

\* C25: in the recursion into a map whose element type is a pointer or
\* interface type implementing Validatable, an entry whose value is a nil
\* pointer or a nil interface is skipped: its Validate is not invoked and the
\* result has no key for it, as for the nil pointer elements of a slice.
C25_MapSkipsNil ==
    (Validated /\ call.value.kind = "map"
               /\ IsCollectionOfValidatable(call.value) /\ AllRulesPass) =>
        \A k \in DOMAIN call.value.m :
            (IsNilEntry(call.value, k) /\ OnlyKey(call.value, k)) =>
                /\ \A n \in 1..Len(OwnElems(log)) : OwnElems(log)[n].key # Sprint(k)
                /\ Sprint(k) \notin ErrKeys(err)

\* ---- C26

\* the value locator number n is to pass to its rules: the value of the field
\* it resolves to, and with the validate-container flag the pointer to the field
PassedValue(n) ==
    IF call.fields[n].validatePtrValue
    THEN AddrOfField(FieldMeta(n))
    ELSE FieldMeta(n).value

\* the validation of that value under the locator's rules, within the call
PassedRun(n) ==
    ValidateWithContext(PassedValue(n), call.fields[n].rules,
                        [Env0 EXCEPT !.sd = 1, !.wd = 0, !.pd = 0])

\* the position in the log of the validation of locator number n's field, 0
\* when the call did not come to it
FieldEventAt(n) ==
    LET K == {k \in 1..Len(log) :
                 log[k].op = "field" /\ log[k].sd = 0 /\ log[k].idx = n - 1}
    IN  IF K = {} THEN 0 ELSE CHOOSE k \in K : TRUE

\* what the log has from position k on up to the next step of the call's own loop
RECURSIVE Nested(_)
Nested(k) ==
    IF k > Len(log) \/ log[k].sd = 0 THEN <<>> ELSE <<log[k]>> \o Nested(k + 1)

\* the locator was built by FieldStruct or NamedStructField with the nested
\* locators of its one rule
IsStructLocator(fr) ==
    /\ fr.validatePtrValue
    /\ Len(fr.rules) = 1
    /\ fr.rules[1].t = "struct"

\* C26: a locator built by Field or NamedField passes the dereferenced field
\* value to its rules; a locator built by FieldStruct or NamedStructField
\* passes the pointer to the field and has exactly one rule, which runs
\* ValidateStructWithContext on that pointer with the nested locators and the
\* same context.
C26_ValueExtraction ==
    (ValidatedStruct /\ IsStructPointer(call.value)) =>
        \A n \in 1..Len(call.fields) :
            (Reached(n) /\ Addresses(n)) =>
                /\ call.fields[n].validatePtrValue => IsStructLocator(call.fields[n])
                /\ IsStructLocator(call.fields[n]) =>
                       PassedRun(n).err =
                           ValidateStructWithContext(AddrOfField(FieldMeta(n)),
                               call.fields[n].rules[1].fields,
                               [Env0 EXCEPT !.sd = 1, !.wd = 0, !.pd = 0]).err
                /\ FieldEventAt(n) # 0
                /\ Nested(FieldEventAt(n) + 1) = PassedRun(n).log
                /\ (n = Len(call.fields) /\ PassedRun(n).err # Nil) =>
                       IF IsFatal(PassedRun(n).err) THEN err = PassedRun(n).err
                       ELSE IF FieldMeta(n).anonymous /\ PassedRun(n).err.t = "errors"
                       THEN \A k \in DOMAIN PassedRun(n).err.m :
                                /\ err.t = "errors"
                                /\ k \in DOMAIN err.m
                                /\ err.m[k] = PassedRun(n).err.m[k]
                       ELSE LET key == CallGetErrorFieldNameFunc(Env0, FieldMeta(n))
                            IN  /\ err.t = "errors"
                                /\ key \in DOMAIN err.m
                                /\ err.m[key] = PassedRun(n).err

\* ---- C27

SelfCalls ==
    {k \in 1..Len(log) : log[k].op = "self" /\ log[k].pd = 0 /\ log[k].sd = 0}

\* every rule of the call's list was invoked before position k of the log
\* (a rule that fails ends the call, so each one passed)
RulesPassedBefore(k) ==
    \A i \in 1..Len(call.rules) :
        \E j \in 1..(k - 1) :
            log[j].op = "rule" /\ log[j].wd = 0 /\ log[j].pd = 0 /\ log[j].sd = 0
                /\ log[j].idx = i

\* C30: within one ValidateWithContext call on a Validatable value the
\* value's Validate method is invoked at most once, and only after every rule
\* of the list has passed, also when the list has When/Else rules.
C30_ValidateOnce ==
    (Validated /\ IsValidatable(call.value)) =>
        /\ Cardinality(SelfCalls) <= 1
        /\ \A k \in SelfCalls : RulesPassedBefore(k)

\* ---- C29

\* the chain of pointers from v ends within n dereferences: at a nil, at a
\* value that is no pointer, or at a Validatable value
RECURSIVE ChainEnds(_, _)
ChainEnds(v, n) ==
    IF v.kind # "ptr" \/ v.isNil \/ v.impl THEN TRUE
    ELSE IF n = 0 THEN FALSE
    ELSE ChainEnds(mem[v.to].val, n - 1)

\* the value of the call does not reach itself
EndsSomewhere == ChainEnds(call.value, MaxCells)

\* C29: ValidateWithContext returns for every value, the rules and Validate
\* methods returning: the recursion through pointers and interfaces comes to
\* a value that is no pointer or to a nil, also for a value that reaches
\* itself through a pointer to an interface variable.
C29_Terminates == <>(pc = "returned")

\* the same for the values that do not reach themselves
C29_TerminatesUnlessCyclic == EndsSomewhere => <>(pc = "returned")

====
